---- MODULE Spec2Model ----
(***************************************************************************)
(* Market-data ingestion of SafeSwap.ai: the API collector                 *)
(* (src/api/main.go:1-630: CoinGecko historical + current, CoinMarketCap   *)
(* quotes) and the CoinMarketCap page scraper (src/api/main.go:631-969),   *)
(* both writing append-only CSV files.                                     *)
(*                                                                         *)
(* Each program is a sequential process; a step of the model is one        *)
(* statement group of its main line (the file check, one initializer, one  *)
(* whole loop iteration: request, handling of the response, sleep).  The   *)
(* environment chooses what every HTTP call, page load and file operation  *)
(* returns.                                                                *)
(***************************************************************************)
EXTENDS Integers, Sequences, FiniteSets, TLC

\* ----------------------------------------------------------------- bounds
\* len(TOKENS) (20 in the source), scaled down; also the number of symbols.
NumTokens == 3
\* batchSize (50 in the source), scaled down with the token list.
BatchSize == 2
\* the largest number of data points / objects one payload carries.
MaxPoints == 1
\* the number of invocations in the multi-run specification.
MaxRuns == 2

\* the longest list and the largest batch size of the batching loop on its own.
MaxListLen == 8
MaxBatch == 4

\* the largest number of entries in a payload given to a writer on its own.
MaxEntries == 2

\* the longest cell text of the price parser on its own.
MaxText == 3
\* the most table rows of one scraped page.
MaxRows == 2
\* the most requests of one source in the run whose request times are
\* followed.
MaxCalls == 32

\* ------------------------------------------------------ program constants
CG_RATE_LIMIT == 10
CMC_RATE_LIMIT == 30
CG_DELAY == 7
CMC_DELAY == 3

TokensRepeated == [k \in 1..NumTokens |-> 1]
TOKENS == [k \in 1..NumTokens |-> k]
SYMBOLS == [k \in 1..NumTokens |-> k]

\* The three output files: A = CG_CSV_PATH, B = CMC_CSV_PATH of the API
\* collector, C = CMC_CSV_PATH of the scraper.
Paths == {"A", "B", "C"}
\* The identifiers of the configured tokens (main.go:28-33); TOKENS[k] of
\* the model stands for the k-th of them.
TokenNames ==
  <<
    "bitcoin", "ethereum", "solana", "cardano", "ripple",
    "polkadot", "dogecoin", "avalanche-2", "chainlink", "polygon",
    "uniswap", "litecoin", "stellar", "cosmos", "monero",
    "tron", "ethereum-classic", "filecoin", "hedera-hashgraph", "aptos"
  >>
\* The catalog (main.go:49-73).
MetadataWithoutLast ==
  ("bitcoin" :> [Symbol |-> "btc", Name |-> "Bitcoin"]) @@
  ("ethereum" :> [Symbol |-> "eth", Name |-> "Ethereum"]) @@
  ("solana" :> [Symbol |-> "sol", Name |-> "Solana"]) @@
  ("cardano" :> [Symbol |-> "ada", Name |-> "Cardano"]) @@
  ("ripple" :> [Symbol |-> "xrp", Name |-> "XRP"]) @@
  ("polkadot" :> [Symbol |-> "dot", Name |-> "Polkadot"]) @@
  ("dogecoin" :> [Symbol |-> "doge", Name |-> "Dogecoin"]) @@
  ("avalanche-2" :> [Symbol |-> "avax", Name |-> "Avalanche"]) @@
  ("chainlink" :> [Symbol |-> "link", Name |-> "Chainlink"]) @@
  ("polygon" :> [Symbol |-> "matic", Name |-> "Polygon"]) @@
  ("uniswap" :> [Symbol |-> "uni", Name |-> "Uniswap"]) @@
  ("litecoin" :> [Symbol |-> "ltc", Name |-> "Litecoin"]) @@
  ("stellar" :> [Symbol |-> "xlm", Name |-> "Stellar"]) @@
  ("cosmos" :> [Symbol |-> "atom", Name |-> "Cosmos"]) @@
  ("monero" :> [Symbol |-> "xmr", Name |-> "Monero"]) @@
  ("tron" :> [Symbol |-> "trx", Name |-> "TRON"]) @@
  ("ethereum-classic" :> [Symbol |-> "etc", Name |-> "Ethereum Classic"]) @@
  ("filecoin" :> [Symbol |-> "fil", Name |-> "Filecoin"]) @@
  ("hedera-hashgraph" :> [Symbol |-> "hbar", Name |-> "Hedera"])
TOKEN_METADATA ==
  ("bitcoin" :> [Symbol |-> "btc", Name |-> "Bitcoin"]) @@
  ("ethereum" :> [Symbol |-> "eth", Name |-> "Ethereum"]) @@
  ("solana" :> [Symbol |-> "sol", Name |-> "Solana"]) @@
  ("cardano" :> [Symbol |-> "ada", Name |-> "Cardano"]) @@
  ("ripple" :> [Symbol |-> "xrp", Name |-> "XRP"]) @@
  ("polkadot" :> [Symbol |-> "dot", Name |-> "Polkadot"]) @@
  ("dogecoin" :> [Symbol |-> "doge", Name |-> "Dogecoin"]) @@
  ("avalanche-2" :> [Symbol |-> "avax", Name |-> "Avalanche"]) @@
  ("chainlink" :> [Symbol |-> "link", Name |-> "Chainlink"]) @@
  ("polygon" :> [Symbol |-> "matic", Name |-> "Polygon"]) @@
  ("uniswap" :> [Symbol |-> "uni", Name |-> "Uniswap"]) @@
  ("litecoin" :> [Symbol |-> "ltc", Name |-> "Litecoin"]) @@
  ("stellar" :> [Symbol |-> "xlm", Name |-> "Stellar"]) @@
  ("cosmos" :> [Symbol |-> "atom", Name |-> "Cosmos"]) @@
  ("monero" :> [Symbol |-> "xmr", Name |-> "Monero"]) @@
  ("tron" :> [Symbol |-> "trx", Name |-> "TRON"]) @@
  ("ethereum-classic" :> [Symbol |-> "etc", Name |-> "Ethereum Classic"]) @@
  ("filecoin" :> [Symbol |-> "fil", Name |-> "Filecoin"]) @@
  ("hedera-hashgraph" :> [Symbol |-> "hbar", Name |-> "Hedera"]) @@
  ("aptos" :> [Symbol |-> "apt", Name |-> "Aptos"])

\* The files the API collector writes (main.go:24-25).
CmcPathMerged == "A"
CG_CSV_PATH == "A"
CMC_CSV_PATH == "B"

VARIABLES
  fs,        \* the file system: path -> [st, rows]
  pc,        \* position of the running process
  run,       \* number of invocations so far
  env,       \* what the environment may do: [prog, runs, pts, io, net]
  cmcKey,    \* CMC_API_KEY != ""
  cgExists,  \* main's cgExists
  cmcExists, \* main's cmcExists
  skipHist,  \* SKIP_HISTORICAL
  i,         \* loop index of the running collection loop
  resp,      \* the HTTP response being handled
  total,     \* totalRecords of the running phase
  ev,        \* history: phases entered, requests, sleeps, reports of this run
  expect,    \* history: rows carried by the successful fetches of this phase
  fs0,       \* history: the file system when this invocation started
  histRuns,  \* history: invocations that entered the historical phase
  bodies,    \* HTTP response bodies obtained and not yet closed
  browser,   \* scraper: the browser session: "none", "open" or "closed"
  pages      \* scraper: number of pages open

vars == <<fs, pc, run, env, cmcKey, cgExists, cmcExists, skipHist, i, resp,
          total, ev, expect, fs0, histRuns, bodies, browser, pages>>

\* The variables of one program that the other never touches.
apiVars == <<cmcKey, cgExists, cmcExists, skipHist, histRuns, bodies>>
scrVars == <<browser, pages>>

\* ------------------------------------------------------------------ rows
Row(src, item, r, k) == [src |-> src, item |-> item, run |-> r, k |-> k]
\* The header row an initializer writes (457-462, 477-484, 743-754).
HeaderOf(p) ==
  Row(IF p = "A" THEN "headerA" ELSE IF p = "B" THEN "headerB" ELSE "headerC", 0, 0, 0)
\* A data row left in the file by an earlier run.
OldRow(p) == Row("old", 0, 0, 1)
IsHeader(r) == r.src \in {"headerA", "headerB", "headerC"}

Absent == [st |-> "absent", rows |-> <<>>]
File(rows) == [st |-> "file", rows |-> rows]

Min(a, b) == IF a < b THEN a ELSE b

IsPrefix(s, t) == Len(s) <= Len(t) /\ SubSeq(t, 1, Len(s)) = s

\* ----------------------------------------------------- fileExists (239-245)
\* os.Stat: a missing path gives false, a directory gives false, a regular
\* file true.  A stat error other than "not exist" leaves info nil and the
\* call info.IsDir() panics.
StatPanics(p) == fs[p].st = "staterr"
fileExists(p) == IF fs[p].st = "absent" THEN FALSE ELSE fs[p].st # "dir"

\* main.go:157  if cgExists || cmcExists { SKIP_HISTORICAL = true }
RecurringAnd(cg, cmc) == cg /\ cmc
RecurringNever(cg, cmc) == FALSE
IsRecurring(cg, cmc) == cg \/ cmc

\* os.OpenFile(path, O_WRONLY|O_APPEND): every write lands after the
\* current end of the file.
AppendTruncating(old, new) == new
AppendAtStart(old, new) == new \o old
AppendRows(old, new) == old \o new

\* The order in which a range loop visits n entries.  552 (and 500) ranges
\* over a slice, in index order.  598 ranges over data.Data, a
\* map[string]CMCCoinData (105): the iteration order of a map is not
\* specified and differs from one execution to the next, so the coins are
\* visited in any order.
SliceOrder(n) == {[k \in 1..n |-> k]}
MapOrders(n) == {p \in [1..n -> 1..n] : \A a, b \in 1..n : p[a] = p[b] => a = b}
RangeOrders(src, n) == IF src = "coinmarketcap" THEN MapOrders(n) ELSE SliceOrder(n)
Reordered(s, p) == [k \in 1..Len(s) |-> s[p[k]]]

\* The rows one writer call builds from a payload of n entries.
RowsOf(src, item, n) == [k \in 1..n |-> Row(src, item, run, k)]

\* What a writer call can do with n rows once the file is open: w rows reach
\* the file, c rows are counted.  csv.Writer buffers; a row is counted when
\* it is buffered, and a failed flush (its error is dropped by the deferred
\* Flush) loses rows already counted.  w = c = n is the call without any
\* I/O error, the only outcome where the environment has none.
WriteOutcomes(n) ==
  IF env.io THEN {o \in [w : 0..n, c : 0..n] : o.w <= o.c}
  ELSE {[w |-> n, c |-> n]}

NoResp == [kind |-> "none", n |-> 0, bad |-> 0, full |-> FALSE, operr |-> FALSE]
FailKinds == {"neterr", "status", "readerr", "decodeerr"}
Failures ==
  {[kind |-> kd, n |-> 0, bad |-> 0, full |-> FALSE, operr |-> FALSE] : kd \in env.net \ {"readerr"}}
\* io.ReadAll returned an error: the bytes read so far are either a
\* truncated document or (full) the whole document of n entries.
ReadErrors ==
  IF "readerr" \in env.net
  THEN {[kind |-> "readerr", n |-> m, bad |-> 0, full |-> TRUE, operr |-> FALSE] : m \in 0..env.pts}
       \cup {[kind |-> "readerr", n |-> 0, bad |-> 0, full |-> FALSE, operr |-> FALSE]}
  ELSE {}

Event(t, s, x) == [t |-> t, s |-> s, x |-> x]

Running == {"start", "initA", "initB", "phase1", "hist", "phase2", "cur",
            "phase3", "cmc"}
Exited == {"idle", "done", "fatal", "panic", "killed"}

\* ------------------------------------------------------------------ Init
InitCommon ==
  /\ pc = "idle"
  /\ run = 0
  /\ cmcKey = FALSE
  /\ cgExists = FALSE
  /\ cmcExists = FALSE
  /\ skipHist = FALSE
  /\ i = 0
  /\ resp = NoResp
  /\ total = 0
  /\ ev = <<>>
  /\ expect = <<>>
  /\ histRuns = {}
  /\ bodies = 0
  /\ browser = "none"
  /\ pages = 0

\* One invocation of the API collector on any file system it may find:
\* each REST output file absent, a directory, unreadable, or a file left by
\* earlier runs.  Every call may fail in every way; the writes to the files
\* succeed (IoInit is the start with failing writes).
Init ==
  /\ InitCommon
  /\ env = [prog |-> "api", runs |-> 1, pts |-> MaxPoints, io |-> FALSE,
            net |-> FailKinds \cup {"apierr"}]
  /\ \E a \in {Absent, [st |-> "dir", rows |-> <<>>], [st |-> "staterr", rows |-> <<>>],
               File(<<HeaderOf("A"), OldRow("A")>>)} :
     \E b \in {Absent, [st |-> "staterr", rows |-> <<>>],
               File(<<HeaderOf("B"), OldRow("B")>>)} :
       fs = [p \in Paths |-> IF p = "A" THEN a ELSE IF p = "B" THEN b ELSE Absent]
  /\ fs0 = fs

\* ----------------------------------------------------- main (133-236)
\* A new process: package-level variables take their initial values
\* (SKIP_HISTORICAL = false, line 46); the log file is opened (138-144).
Invoke ==
  /\ env.prog = "api"
  /\ pc \in Exited
  /\ run < env.runs
  /\ run' = run + 1
  /\ \E key \in BOOLEAN : cmcKey' = key
  /\ \/ pc' = "start"
     \/ pc' = "fatal"     \* log.Fatalf: the log file cannot be opened (141)
  /\ cgExists' = FALSE /\ cmcExists' = FALSE /\ skipHist' = FALSE
  /\ i' = 0 /\ resp' = NoResp /\ total' = 0
  /\ ev' = <<>> /\ expect' = <<>>
  /\ fs0' = fs
  /\ bodies' = 0
  /\ UNCHANGED <<fs, env, histRuns, scrVars>>

\* The mode main announces: "APPEND mode" (158-159) or "FULL mode" (162-163).
ModeEvent(skip) == Event("mode", IF skip THEN "append" ELSE "full", 0)

\* main.go:153-165
CheckFiles ==
  /\ pc = "start"
  /\ IF StatPanics("A") \/ StatPanics("B")
     THEN /\ pc' = "panic"
          /\ UNCHANGED <<cgExists, cmcExists, skipHist, ev>>
     ELSE /\ cgExists' = fileExists("A")
          /\ cmcExists' = fileExists("B")
          /\ skipHist' = IsRecurring(fileExists("A"), fileExists("B"))
          /\ ev' = Append(ev, ModeEvent(IsRecurring(fileExists("A"), fileExists("B"))))
          /\ pc' = "initA"
  /\ UNCHANGED <<fs, run, env, cmcKey, i, resp, total, expect, fs0, histRuns, bodies,
                 scrVars>>

\* initCoinGeckoCSV / initCMCCSV / initCSV (447-487, 733-757): os.Create
\* truncates an existing file; the header is buffered by writer.Write (which
\* returns nil) and reaches the file in the deferred Flush, whose error is
\* dropped.  Results: the error returned and the file left behind.
InitResults(p) ==
  {[err |-> TRUE, f |-> fs[p]]}
  \cup (IF fs[p].st = "dir" THEN {}
        ELSE {[err |-> FALSE, f |-> File(<<HeaderOf(p)>>)]}
             \cup (IF env.io THEN {[err |-> FALSE, f |-> File(<<>>)]} ELSE {}))

\* History: an initializer is called on p; x = 1 when a file is there.
InitEvent(p) == Event("init", p, IF fs[p].st = "file" THEN 1 ELSE 0)

\* main.go:176-183
InitA ==
  /\ pc = "initA"
  /\ IF cgExists
     THEN pc' = "initB" /\ UNCHANGED <<fs, ev>>
     ELSE \E o \in InitResults("A") :
            /\ fs' = [fs EXCEPT !["A"] = o.f]
            /\ ev' = Append(ev, InitEvent("A"))
            /\ pc' = IF o.err THEN "fatal" ELSE "initB"
  /\ UNCHANGED <<run, env, i, resp, total, expect, fs0, apiVars, scrVars>>

\* main.go:185-191
InitB ==
  /\ pc = "initB"
  /\ IF cmcExists
     THEN pc' = "phase1" /\ UNCHANGED <<fs, ev>>
     ELSE \E o \in InitResults("B") :
            /\ fs' = [fs EXCEPT !["B"] = o.f]
            /\ ev' = Append(ev, InitEvent("B"))
            /\ pc' = IF o.err THEN "fatal" ELSE "phase1"
  /\ UNCHANGED <<run, env, i, resp, total, expect, fs0, apiVars, scrVars>>

\* ------------------------------------------------ the writers (489-630)
\* One writer call on file p with the rows `new`: the open fails (operr)
\* when there is no regular file (no O_CREATE) and, where file operations
\* may fail, for any other reason: the writer logs it and returns 0 (491-494,
\* 539-542, 585-588); otherwise any WriteOutcomes.
OpenFailedCounting(p) == [f |-> fs[p], c |-> 1, operr |-> TRUE]
OpenFailed(p) == [f |-> fs[p], c |-> 0, operr |-> TRUE]
WriterResults(p, new) ==
  IF fs[p].st # "file" THEN {OpenFailed(p)}
  ELSE {[f |-> File(AppendRows(fs[p].rows, SubSeq(new, 1, o.w))), c |-> o.c,
         operr |-> FALSE] : o \in WriteOutcomes(Len(new))}
       \cup (IF env.io THEN {OpenFailed(p)} ELSE {})

\* writeCoinGeckoHistoricalToCSV on a payload whose entry `bad` has fewer
\* than two numbers: data.Prices[i][1] panics at that entry; the deferred
\* Flush still runs, so any of the rows built before it may reach the file.
PanicResults(p, new, bad) ==
  IF fs[p].st # "file" THEN {}
  ELSE {File(AppendRows(fs[p].rows, SubSeq(new, 1, w))) :
          w \in (IF env.io THEN 0..(bad - 1) ELSE {bad - 1})}

\* The sleep each branch of a loop body ends with: time.Sleep(CG_DELAY) on
\* every branch of the two CoinGecko loops, time.Sleep(CMC_DELAY) on every
\* branch of the CoinMarketCap loop that follows a request.
DelayAfterNoneOnStatus(src, kind) ==
  IF kind = "status" THEN 0 ELSE IF src = "A" THEN CG_DELAY ELSE CMC_DELAY
DelayAfter(src, kind) == IF src = "A" THEN CG_DELAY ELSE CMC_DELAY

SleepEvents(src, kind) ==
  IF DelayAfter(src, kind) > 0
  THEN <<Event("sleep", "-", DelayAfter(src, kind))>>
  ELSE <<>>

\* ------------------------- collectCoinGeckoHistorical (248-305)
OkPayloads == {[kind |-> "ok", n |-> m, bad |-> 0, full |-> TRUE, operr |-> FALSE] : m \in 0..env.pts}
\* A payload that decodes but has a short entry at index bad.
BadPayloads ==
  UNION {{[kind |-> "ok", n |-> m, bad |-> b, full |-> TRUE, operr |-> FALSE] : b \in 1..m} :
           m \in 1..env.pts}
ApiErrors ==
  IF "apierr" \in env.net
  THEN {[kind |-> "apierr", n |-> m, bad |-> 0, full |-> TRUE, operr |-> FALSE] : m \in 0..env.pts}
  ELSE {}

\* What one iteration adds to the history: its request and the sleep its
\* branch ends with.
IterEvents(src, item, kind) == <<Event("req", src, item)>> \o SleepEvents(src, kind)

\* The response as the loop body leaves it: operr records that the writer
\* called for it could not open its file ("Error opening CSV", 492).
Handled(r, operr) == [r EXCEPT !.operr = operr]

\* The line printed after a loop (304, 363, 443).
ReportEvents(phase, last) == IF last THEN <<Event("report", phase, 0)>> ELSE <<>>

\* 268, 336, 409: defer resp.Body.Close() stands inside the for loop, after
\* the error test of the request (262, 330, 403). A deferred call runs when
\* the surrounding function returns (or while a panic unwinds it), never at
\* the end of a loop iteration: n bodies are open, the request of this
\* iteration ended as kind, and returns tells whether the collect function
\* returns after it.
Obtained(kind) == kind # "neterr"
BodiesAfterCloseEach(n, kind, returns) == 0
BodiesAfter(n, kind, returns) ==
  IF returns THEN 0 ELSE IF Obtained(kind) THEN n + 1 ELSE n

\* main.go:193-201
EnterHist ==
  /\ pc = "phase1"
  /\ IF ~skipHist
     THEN /\ ev' = Append(ev, Event("phase", "hist", 0))
          /\ histRuns' = histRuns \cup {run}
          /\ pc' = "hist"
     ELSE /\ pc' = "phase2"
          /\ UNCHANGED <<ev, histRuns>>
  /\ i' = 0 /\ total' = 0 /\ expect' = <<>>
  /\ UNCHANGED <<fs, run, env, cmcKey, cgExists, cmcExists, skipHist, resp,
                 fs0, bodies, scrVars>>

\* 262-292: every error of the call (http.Get, status, io.ReadAll,
\* json.Unmarshal) is checked.
HistAccepts(r) == r.kind = "ok"

\* One iteration of the loop at 251-302 for TOKENS[i]: http.Get, the error
\* branches or writeCoinGeckoHistoricalToCSV, time.Sleep(CG_DELAY); after
\* the last token the total is printed (304).
HistIter ==
  /\ pc = "hist"
  /\ i < NumTokens
  /\ \E r \in Failures \cup ReadErrors \cup OkPayloads \cup BadPayloads :
       LET tok == TOKENS[i + 1]
           new == RowsOf("coingecko_historical", tok, r.n)
           last == ~(i + 1 < NumTokens)
       IN
       /\ \/ /\ ~HistAccepts(r)
             /\ resp' = r
             /\ UNCHANGED <<fs, total, expect>>
             /\ ev' = ev \o IterEvents("A", tok, r.kind) \o ReportEvents("hist", last)
             /\ bodies' = BodiesAfter(bodies, r.kind, last)
             /\ i' = i + 1
             /\ pc' = IF last THEN "phase2" ELSE "hist"
          \/ /\ HistAccepts(r)
             /\ r.bad > 0
             /\ resp' = r
             /\ expect' = expect \o new
             /\ \E f \in PanicResults(CG_CSV_PATH, new, r.bad) : fs' = [fs EXCEPT ![CG_CSV_PATH] = f]
             /\ ev' = Append(ev, Event("req", "A", tok))
             /\ bodies' = BodiesAfter(bodies, r.kind, TRUE)
             /\ pc' = "panic"
             /\ UNCHANGED <<total, i>>
          \/ /\ HistAccepts(r)
             /\ expect' = expect \o new
             /\ \E o \in WriterResults(CG_CSV_PATH, new) :
                  /\ r.bad = 0 \/ o.operr
                  /\ fs' = [fs EXCEPT ![CG_CSV_PATH] = o.f]
                  /\ total' = total + o.c
                  /\ resp' = Handled(r, o.operr)
                  /\ ev' = ev \o IterEvents("A", tok, r.kind)
                             \o ReportEvents("hist", last)
             /\ bodies' = BodiesAfter(bodies, r.kind, last)
             /\ i' = i + 1
             /\ pc' = IF last THEN "phase2" ELSE "hist"
  /\ UNCHANGED <<run, env, cmcKey, cgExists, cmcExists, skipHist, fs0,
                 histRuns, scrVars>>

\* --------------------------- collectCoinGeckoCurrent (308-364)
\* 313-318 (and 379-384): the batch of size b that starts at index start:
\* end := start + b, cut to len(list); batch := list[start:end]
BatchFromPrevious(list, start, b) ==
  SubSeq(list, IF start > 0 THEN start ELSE 1, Min(start + b, Len(list)))
BatchOf(list, start, b) == SubSeq(list, start + 1, Min(start + b, Len(list)))
BatchAt(list, start) == BatchOf(list, start, BatchSize)

\* main.go:203-207
EnterCur ==
  /\ pc = "phase2"
  /\ ev' = Append(ev, Event("phase", "cur", 0))
  /\ i' = 0 /\ total' = 0 /\ expect' = <<>>
  /\ pc' = "cur"
  /\ UNCHANGED <<fs, run, env, cmcKey, cgExists, cmcExists, skipHist, resp,
                 fs0, histRuns, bodies, scrVars>>

\* 330-353: the error of http.Get and the status are checked; the error of
\* io.ReadAll is dropped (346), so the bytes read are handed to
\* json.Unmarshal, which fails on a truncated document only.
CurAccepts(r) == r.kind = "ok" \/ (r.kind = "readerr" /\ r.full)

\* One iteration of the loop at 313-361 for the batch at i.
CurIter ==
  /\ pc = "cur"
  /\ i < NumTokens
  /\ \E r \in Failures \cup ReadErrors \cup OkPayloads :
       LET new == RowsOf("coingecko_current", i, r.n)
           last == ~(i + BatchSize < NumTokens)
       IN
       /\ \/ /\ ~CurAccepts(r)
             /\ resp' = r
             /\ UNCHANGED <<fs, total, expect>>
             /\ ev' = ev \o IterEvents("A", i, r.kind) \o ReportEvents("cur", last)
          \/ /\ CurAccepts(r)
             /\ expect' = IF r.kind = "ok" THEN expect \o new ELSE expect
             /\ \E o \in WriterResults(CG_CSV_PATH, new) :
                  /\ fs' = [fs EXCEPT ![CG_CSV_PATH] = o.f]
                  /\ total' = total + o.c
                  /\ resp' = Handled(r, o.operr)
                  /\ ev' = ev \o IterEvents("A", i, r.kind)
                             \o ReportEvents("cur", last)
       /\ bodies' = BodiesAfter(bodies, r.kind, last)
       /\ i' = i + BatchSize
       /\ pc' = IF last THEN "phase3" ELSE "cur"
  /\ UNCHANGED <<run, env, cmcKey, cgExists, cmcExists, skipHist, fs0,
                 histRuns, scrVars>>

\* --------------------------- collectCoinMarketCapData (367-444)
\* 210: CMC_API_KEY != "", checked again at 368
CmcAlways(key) == TRUE
CmcWhenKeyEmpty(key) == ~key
CmcEnabled(key) == key

\* main.go:209-217 and 368-370; 219-236 when the phase is skipped
EnterCmc ==
  /\ pc = "phase3"
  /\ IF CmcEnabled(cmcKey)
     THEN /\ ev' = Append(ev, Event("phase", "cmc", 0))
          /\ pc' = "cmc"
     ELSE /\ ev' = ev
          /\ pc' = "done"
  /\ i' = 0 /\ total' = 0 /\ expect' = <<>>
  /\ UNCHANGED <<fs, run, env, cmcKey, cgExists, cmcExists, skipHist, resp,
                 fs0, histRuns, bodies, scrVars>>

\* 428: data.Status.ErrorCode != 0
StatusErrorIgnored(r) == FALSE
StatusError(r) == r.kind = "apierr"

\* 403-433: the error of client.Do, the status, the decode error and the
\* provider's error code are checked; the error of io.ReadAll is dropped
\* (411).
CmcAccepts(r) ==
  (r.kind \in {"ok", "apierr"} \/ (r.kind = "readerr" /\ r.full)) /\ ~StatusError(r)

\* One iteration of the loop at 379-441 for the batch of symbols at i, then
\* main 219-236 after the last.  http.NewRequest (392) cannot fail here: the
\* method is "GET" and the URL is built from constants.
CmcIter ==
  /\ pc = "cmc"
  /\ i < NumTokens
  /\ \E r \in Failures \cup ReadErrors \cup OkPayloads \cup ApiErrors :
       LET new == RowsOf("coinmarketcap", i, r.n)
           last == ~(i + BatchSize < NumTokens)
       IN
       /\ \/ /\ ~CmcAccepts(r)
             /\ resp' = r
             /\ UNCHANGED <<fs, total, expect>>
             /\ ev' = ev \o IterEvents("B", i, r.kind) \o ReportEvents("cmc", last)
          \/ /\ CmcAccepts(r)
             /\ expect' = IF r.kind = "ok" THEN expect \o new ELSE expect
             /\ \E p \in RangeOrders("coinmarketcap", r.n) :
                \E o \in WriterResults(CMC_CSV_PATH, Reordered(new, p)) :
                  /\ fs' = [fs EXCEPT ![CMC_CSV_PATH] = o.f]
                  /\ total' = total + o.c
                  /\ resp' = Handled(r, o.operr)
                  /\ ev' = ev \o IterEvents("B", i, r.kind)
                             \o ReportEvents("cmc", last)
       /\ bodies' = BodiesAfter(bodies, r.kind, last)
       /\ i' = i + BatchSize
       /\ pc' = IF last THEN "done" ELSE "cmc"
  /\ UNCHANGED <<run, env, cmcKey, cgExists, cmcExists, skipHist, fs0,
                 histRuns, scrVars>>

\* ------------------------------------------------------- the environment
\* The process is killed (or the machine stops) between two steps.
Interrupt ==
  /\ pc \in Running
  /\ pc' = "killed"
  /\ UNCHANGED <<fs, run, env, cmcKey, cgExists, cmcExists, skipHist, i, resp,
                 total, ev, expect, fs0, histRuns, scrVars>>
  /\ bodies' = 0

\* ------------------------------------------- the scraper (631-969)
SCRAPE_DELAY == 3

ScrRunning == {"s_init", "s_install", "s_launch", "s_loop"}

\* main (scraper) 681-699: the log file is opened.
ScrInvoke ==
  /\ env.prog = "scraper"
  /\ pc \in Exited
  /\ run < env.runs
  /\ run' = run + 1
  /\ \/ pc' = "s_init"
     \/ pc' = "fatal"     \* 688
  /\ i' = 0 /\ resp' = NoResp /\ total' = 0
  /\ ev' = <<>> /\ expect' = <<>>
  /\ fs0' = fs
  /\ browser' = "none" /\ pages' = 0
  /\ UNCHANGED <<fs, env, apiVars>>

\* 701-706: initCSV is called whatever is at the path.
ScrInit ==
  /\ pc = "s_init"
  /\ \E o \in InitResults("C") :
       /\ fs' = [fs EXCEPT !["C"] = o.f]
       /\ pc' = IF o.err THEN "fatal" ELSE "s_install"
  /\ ev' = Append(ev, InitEvent("C"))
  /\ UNCHANGED <<run, env, i, resp, total, expect, fs0, apiVars, scrVars>>

\* 708-714: playwright.Install
ScrInstall ==
  /\ pc = "s_install"
  /\ \/ pc' = "s_launch"
     \/ pc' = "fatal"     \* 712
  /\ UNCHANGED <<fs, run, env, i, resp, total, ev, expect, fs0, apiVars, scrVars>>

\* 759-784: playwright.Run and Chromium.Launch
ScrLaunch ==
  /\ pc = "s_launch"
  /\ \/ /\ pc' = "s_loop"
        /\ browser' = "open"
     \/ /\ pc' = "fatal"  \* 765, 775
        /\ browser' = browser
  /\ i' = 0 /\ total' = 0
  /\ UNCHANGED <<fs, run, env, resp, ev, expect, fs0, apiVars, pages>>

\* scrapeToken (814-884): what one token's page gives: no page (818-822),
\* a navigation error (830-838), no table row (844-848), or the n rows that
\* pass the gate at 878.  The page is closed on return (823).
ScrapeResults ==
  {[kind |-> kd, n |-> 0, bad |-> 0, full |-> FALSE, operr |-> FALSE] : kd \in {"nopage", "timeout", "norows"}}
  \cup {[kind |-> "rows", n |-> m, bad |-> 0, full |-> TRUE, operr |-> FALSE] : m \in 0..env.pts}

\* appendToCSV (940-969) with the rows `new`: the open fails (err), a
\* writer.Write fails at a flush in the middle (err, a prefix written), or
\* the call returns nil, the rows reaching the file in the deferred Flush
\* whose error is dropped.
AppendResults(p, new) ==
  IF fs[p].st # "file" THEN {[f |-> fs[p], err |-> TRUE, operr |-> TRUE]}
  ELSE {[f |-> File(AppendRows(fs[p].rows, new)), err |-> FALSE, operr |-> FALSE],
        [f |-> fs[p], err |-> TRUE, operr |-> TRUE]}
       \cup (IF env.io
             THEN {[f |-> File(AppendRows(fs[p].rows, SubSeq(new, 1, w))), err |-> e,
                    operr |-> FALSE] : w \in 0..(Len(new) - 1), e \in BOOLEAN}
             ELSE {})

\* Where the loop at 787-809 goes after the result r of one token: on to
\* the next token, or out of the loop after the last.
ScrAfterStopOnTimeout(r, last) ==
  IF r.kind = "timeout" \/ last THEN "done" ELSE "s_loop"
ScrAfter(r, last) == IF last THEN "done" ELSE "s_loop"

\* One iteration of the loop at 787-809 for TOKENS[i]; after the last token
\* the browser is closed (777) and main prints the totals (723-730).
ScrIter ==
  /\ pc = "s_loop"
  /\ i < NumTokens
  /\ \E r \in ScrapeResults :
       LET tok == TOKENS[i + 1]
           new == RowsOf("CoinMarketCap", tok, r.n)
           last == ~(i < NumTokens - 1)
           sleep == IF last THEN <<>> ELSE <<Event("sleep", "-", SCRAPE_DELAY)>>
       IN
       /\ \/ /\ Len(new) = 0
             /\ UNCHANGED <<fs, total>>
             /\ resp' = r
          \/ /\ Len(new) > 0
             /\ \E o \in AppendResults("C", new) :
                  /\ fs' = [fs EXCEPT !["C"] = o.f]
                  /\ total' = IF o.err THEN total ELSE total + Len(new)
                  /\ resp' = Handled(r, o.operr)
       /\ ev' = ev \o <<Event("req", "C", tok)>> \o sleep \o ReportEvents("scrape", last)
       /\ i' = i + 1
       /\ pc' = ScrAfter(r, last)
       /\ browser' = IF last THEN "closed" ELSE browser
  /\ UNCHANGED <<run, env, expect, fs0, apiVars, pages>>

ScrInterrupt ==
  /\ pc \in ScrRunning
  /\ pc' = "killed"
  /\ UNCHANGED <<fs, run, env, i, resp, total, ev, expect, fs0, apiVars, scrVars>>

Next ==
  \/ Invoke
  \/ CheckFiles
  \/ InitA
  \/ InitB
  \/ EnterHist
  \/ HistIter
  \/ EnterCur
  \/ CurIter
  \/ EnterCmc
  \/ CmcIter

\* One invocation of the API collector.
Spec == Init /\ [][Next]_vars

\* A fresh directory and up to MaxRuns invocations, one after the other,
\* each of which may be interrupted at any step; nothing else touches the
\* files.  To keep several runs checkable the environment is narrower than
\* in Spec: a request fails in one way only, a payload has at most one
\* entry and a write either fails at the open or is complete.
RunsInit ==
  /\ InitCommon
  /\ env = [prog |-> "api", runs |-> MaxRuns, pts |-> 1, io |-> FALSE,
            net |-> {"neterr"}]
  /\ fs = [p \in Paths |-> Absent]
  /\ fs0 = fs

RunsNext == Next \/ Interrupt

RunsSpec == RunsInit /\ [][RunsNext]_vars

\* One invocation of the scraper on any output file it may find.
ScraperInit ==
  /\ InitCommon
  /\ env = [prog |-> "scraper", runs |-> 1, pts |-> MaxPoints, io |-> TRUE,
            net |-> {}]
  /\ \E c \in {Absent, [st |-> "dir", rows |-> <<>>], File(<<HeaderOf("C")>>),
               File(<<HeaderOf("C"), OldRow("C")>>)} :
       fs = [p \in Paths |-> IF p = "C" THEN c ELSE Absent]
  /\ fs0 = fs

ScraperNext ==
  \/ ScrInvoke
  \/ ScrInit
  \/ ScrInstall
  \/ ScrLaunch
  \/ ScrIter
  \/ ScrInterrupt

ScraperSpec == ScraperInit /\ [][ScraperNext]_vars

\* One invocation of the API collector in which file operations may fail
\* at any point (a create that leaves no header, a write that stops after
\* any number of rows); a request fails by its status only.
IoInit ==
  /\ InitCommon
  /\ env = [prog |-> "api", runs |-> 1, pts |-> MaxPoints, io |-> TRUE,
            net |-> {"status"}]
  /\ \E a \in {Absent, File(<<HeaderOf("A"), OldRow("A")>>)} :
     \E b \in {Absent, File(<<HeaderOf("B"), OldRow("B")>>)} :
       fs = [p \in Paths |-> IF p = "A" THEN a ELSE IF p = "B" THEN b ELSE Absent]
  /\ fs0 = fs

\* One invocation of either program, with failing file operations.
AnyInit == IoInit \/ ScraperInit

AnyNext == Next \/ ScraperNext

AnySpec == AnyInit /\ [][AnyNext]_vars

\* ---------------------------------- the batching loop on its own
\* The loop header and batch computation shared by collectCoinGeckoCurrent
\* (313-318) and collectCoinMarketCapData (379-384), for every list length
\* env.n and batch size env.b; each dispatch is recorded as a request that
\* carries its batch.
ListOf(n) == [k \in 1..n |-> k]

BatchInit ==
  /\ \E n \in 0..MaxListLen : \E b \in 1..MaxBatch :
       env = [prog |-> "batch", runs |-> 0, pts |-> 0, io |-> FALSE, net |-> {},
              n |-> n, b |-> b]
  /\ pc = "batch"
  /\ run = 0
  /\ cmcKey = FALSE /\ cgExists = FALSE /\ cmcExists = FALSE /\ skipHist = FALSE
  /\ i = 0
  /\ resp = NoResp
  /\ total = 0
  /\ ev = <<>>
  /\ expect = <<>>
  /\ histRuns = {}
  /\ bodies = 0
  /\ browser = "none" /\ pages = 0
  /\ fs = [p \in Paths |-> Absent]
  /\ fs0 = fs

\* for i := 0; i < len(list); i += batchSize { ... batch := list[i:end] ... }
BatchIter ==
  /\ pc = "batch"
  /\ IF i < env.n
     THEN /\ ev' = Append(ev, Event("req", "A", BatchOf(ListOf(env.n), i, env.b)))
          /\ i' = i + env.b
          /\ pc' = pc
     ELSE /\ pc' = "done"
          /\ UNCHANGED <<ev, i>>
  /\ UNCHANGED <<fs, run, env, resp, total, expect, fs0, apiVars, scrVars>>

BatchNext == BatchIter

BatchSpec == BatchInit /\ [][BatchNext]_vars

\* ------------------------------------- the writers, field by field
\* A JSON value where a number is expected: a number, or null / a missing
\* key.  json.Unmarshal leaves a float64 it finds no number for at its zero
\* value (76-125: every numeric field is a plain float64).
JNull == [null |-> TRUE, v |-> 0]
JNum(v) == [null |-> FALSE, v |-> v]
JVals == {JNull, JNum(0), JNum(7)}
FloatOf(j) == IF j.null THEN 0 ELSE j.v

\* A CSV field: the empty string, or the text fmt.Sprintf("%.<prec>f", v)
\* prints for the float v.
EmptyField == [empty |-> TRUE, v |-> 0, prec |-> 0]
Sprintf(prec, v) == [empty |-> FALSE, v |-> v, prec |-> prec]

\* A point of a historical series: [timestamp, value].
PointSeqs(n) == [1..n -> [ts : {0}, v : JVals]]
Stamp(sq) == [k \in 1..Len(sq) |-> [ts |-> k, v |-> sq[k].v]]
HistPayload(pr, mc, vo) ==
  [kind |-> "hist", prices |-> Stamp(pr), mcaps |-> Stamp(mc), vols |-> Stamp(vo)]
\* An object of the current-A array, or a coin of the source-B map with its
\* USD quote.
Coins == [price : JVals, mcap : JVals, vol : JVals]
CoinPayload(kind, cs) == [kind |-> kind, coins |-> cs]

\* 501-512: the values of row idx; a series shorter than the prices gives
\* the zero value of `var marketCap, volume float64`.
ValueAt(series, idx) == IF idx <= Len(series) THEN FloatOf(series[idx].v) ELSE 0

\* The header rows, column by column (457-462, 477-484, 743-754).
Headers(p) ==
  IF p = "A"
  THEN <<"timestamp", "date", "token_id", "symbol", "name",
         "price", "market_cap", "total_volume",
         "high_24h", "low_24h", "price_change_24h", "price_change_percentage_24h",
         "circulating_supply", "total_supply", "ath", "ath_date", "source">>
  ELSE IF p = "B"
  THEN <<"timestamp", "date", "symbol", "name", "slug",
         "price", "volume_24h", "volume_change_24h",
         "percent_change_1h", "percent_change_24h", "percent_change_7d",
         "market_cap", "market_cap_dominance",
         "circulating_supply", "total_supply", "max_supply",
         "last_updated", "source">>
  ELSE <<"date", "token_symbol", "token_name", "open", "high", "low", "close",
         "volume", "market_cap", "source">>

\* The tag each path puts in the last field (524, 570, 619, 862).
SourceTagFolded(kind) ==
  CASE kind = "hist" -> "coingecko_historical"
    [] kind = "cur" -> "coingecko_current"
    [] kind = "cmc" -> "coinmarketcap"
    [] OTHER -> "coinmarketcap"
SourceTag(kind) ==
  CASE kind = "hist" -> "coingecko_historical"
    [] kind = "cur" -> "coingecko_current"
    [] kind = "cmc" -> "coinmarketcap"
    [] OTHER -> "CoinMarketCap"

\* The record literals, field by field: each field named by the expression
\* it is printed from, "" for an empty string, the tag last.
HistFieldsShort ==
  <<"timestamp", "date", "tokenID", "", "", "price", "marketCap", "volume",
    "", "", "", "", "", "", "", SourceTag("hist")>>
HistFields ==
  <<"timestamp", "date", "tokenID", "", "", "price", "marketCap", "volume",
    "", "", "", "", "", "", "", "", SourceTag("hist")>>
CurFields ==
  <<"timestamp", "date", "coin.ID", "coin.Symbol", "coin.Name",
    "coin.CurrentPrice", "coin.MarketCap", "coin.TotalVolume",
    "coin.High24h", "coin.Low24h", "coin.PriceChange24h", "coin.PriceChangePercentage24h",
    "coin.CirculatingSupply", "coin.TotalSupply", "coin.ATH", "coin.ATHDate",
    SourceTag("cur")>>
CmcFields ==
  <<"timestamp", "date", "coin.Symbol", "coin.Name", "coin.Slug",
    "quote.Price", "quote.Volume24h", "quote.VolumeChange24h",
    "quote.PercentChange1h", "quote.PercentChange24h", "quote.PercentChange7d",
    "quote.MarketCap", "quote.MarketCapDominance",
    "coin.CirculatingSupply", "coin.TotalSupply", "coin.MaxSupply",
    "quote.LastUpdated", SourceTag("cmc")>>
ScrFields(d) ==
  <<"d.Date", "d.TokenSymbol", "d.TokenName", "d.Open", "d.High", "d.Low", "d.Close",
    "d.Volume", "d.MarketCap", d.Source>>

\* time.Unix(t, 0).Format("2006-01-02") and time.Now().Format("2006-01-02"):
\* the calendar day of the instant t, counted in days.
CalendarDate(t) == t \div 86400
\* The two readings of time.Now() at 548-549 and at 594-595: the second is
\* not earlier than the first, and midnight may lie between them.
ClockReadings == {<<86399, 86399>>, <<86399, 86400>>}

\* 514-526: the record built for price point idx
HistRecord(d, idx) ==
  [src |-> SourceTag("hist"), fields |-> HistFields, ts |-> d.prices[idx].ts,
   date |-> CalendarDate(d.prices[idx].ts),
   price |-> Sprintf(8, FloatOf(d.prices[idx].v)),
   mcap |-> Sprintf(2, ValueAt(d.mcaps, idx)),
   vol |-> Sprintf(2, ValueAt(d.vols, idx))]

\* 553-571 and 603-620: the record built for one coin
CoinRecord(src, c, now) ==
  [src |-> src, fields |-> IF src = SourceTag("cur") THEN CurFields ELSE CmcFields,
   ts |-> now[1], date |-> CalendarDate(now[2]),
   price |-> Sprintf(8, FloatOf(c.price)),
   mcap |-> Sprintf(2, FloatOf(c.mcap)),
   vol |-> Sprintf(2, FloatOf(c.vol))]


\* ------------------------------------------- parsePrice (886-920)
\* A cell text is a sequence of characters.  "x" stands for any character
\* that is no digit, sign, point, space, "$", "," or one of B b M m (the
\* dash of an empty cell, a letter).
Digits == {"0", "1", "2", "3", "4", "5", "6", "7", "8", "9"}
DigitVal(c) ==
  CASE c = "0" -> 0 [] c = "1" -> 1 [] c = "2" -> 2 [] c = "3" -> 3 [] c = "4" -> 4
    [] c = "5" -> 5 [] c = "6" -> 6 [] c = "7" -> 7 [] c = "8" -> 8 [] OTHER -> 9

\* strings.ReplaceAll(t, c, "")
RemoveAll(t, c) == LET Keep(ch) == ch # c IN SelectSeq(t, Keep)
\* strings.Contains(t, c)
Contains(t, c) == \E k \in 1..Len(t) : t[k] = c
\* strings.TrimSpace
RECURSIVE TrimLeft(_)
TrimLeft(t) == IF t # <<>> /\ Head(t) = " " THEN TrimLeft(Tail(t)) ELSE t
RECURSIVE TrimRight(_)
TrimRight(t) ==
  IF t # <<>> /\ t[Len(t)] = " " THEN TrimRight(SubSeq(t, 1, Len(t) - 1)) ELSE t
TrimSpace(t) == TrimRight(TrimLeft(t))

\* A float as the decimal mant * 10^exp, mant without trailing zeros.
RECURSIVE Normal(_)
Normal(f) ==
  IF f.mant = 0 THEN [mant |-> 0, exp |-> 0]
  ELSE IF f.mant % 10 = 0 THEN Normal([mant |-> f.mant \div 10, exp |-> f.exp + 1])
  ELSE f
Zero == [mant |-> 0, exp |-> 0]
Times10(f, n) == Normal([mant |-> f.mant, exp |-> f.exp + n])

RECURSIVE DigitsValue(_)
DigitsValue(t) ==
  IF t = <<>> THEN 0 ELSE 10 * DigitsValue(SubSeq(t, 1, Len(t) - 1)) + DigitVal(t[Len(t)])

\* strconv.ParseFloat on the texts of this alphabet: an optional sign,
\* digits with at most one point, at least one digit.
Unsigned(t) == IF t # <<>> /\ Head(t) \in {"-", "+"} THEN Tail(t) ELSE t
IsFloatText(t) ==
  LET u == Unsigned(t) IN
  /\ \A k \in 1..Len(u) : u[k] \in Digits \cup {"."}
  /\ Cardinality({k \in 1..Len(u) : u[k] = "."}) <= 1
  /\ \E k \in 1..Len(u) : u[k] \in Digits
PointAt(u) == IF Contains(u, ".") THEN CHOOSE k \in 1..Len(u) : u[k] = "." ELSE Len(u) + 1
ParseFloat(t) ==
  LET u == Unsigned(t)
      sign == IF t # <<>> /\ Head(t) = "-" THEN -1 ELSE 1
  IN Normal([mant |-> sign * DigitsValue(RemoveAll(u, ".")),
             exp |-> -(IF Contains(u, ".") THEN Len(u) - PointAt(u) ELSE 0)])

\* 897-919: the text cleaned of "$" and ",", the multiplier found, the
\* letters removed, the rest parsed; 0 when it does not parse.
Cleaned(t) == RemoveAll(RemoveAll(TrimSpace(t), "$"), ",")
HasBillions(t) == Contains(t, "B") \/ Contains(t, "b")
HasMillions(t) == Contains(t, "M") \/ Contains(t, "m")
MultiplierUpperOnly(t) == IF Contains(t, "B") THEN 9 ELSE IF Contains(t, "M") THEN 6 ELSE 0
Multiplier(t) == IF HasBillions(t) THEN 9 ELSE IF HasMillions(t) THEN 6 ELSE 0
Unsuffixed(t) ==
  IF HasBillions(t) THEN RemoveAll(RemoveAll(t, "B"), "b")
  ELSE IF HasMillions(t) THEN RemoveAll(RemoveAll(t, "M"), "m")
  ELSE t
parsePrice(t) ==
  LET c == Cleaned(t)
      u == TrimSpace(Unsuffixed(c))
  IN IF IsFloatText(u) THEN Times10(ParseFloat(u), Multiplier(c)) ELSE Zero

PriceAlphabet == {"$", ",", "1", "0", ".", "B", "b", "M", "m", " ", "x"}
RECURSIVE TextsOfLen(_)
TextsOfLen(n) ==
  IF n = 0 THEN {<<>>}
  ELSE {Append(t, c) : t \in TextsOfLen(n - 1), c \in PriceAlphabet}
\* The texts the parser is run on: every text up to MaxText and the cell
\* texts of a real page.
SampleTexts ==
  {<<"$", "1", ",", "2", "3", "4", ".", "5", "0">>,
   <<"$", "2", ".", "3", "B">>,
   <<"$", "4", "5", ".", "6", "7", "m">>,
   <<"$", "1", "5", "0", ".", "2", "5">>}

PriceInit ==
  /\ env = [prog |-> "parsePrice", runs |-> 0, pts |-> 0, io |-> FALSE, net |-> {}]
  /\ pc = "p_price"
  /\ \E t \in SampleTexts \cup UNION {TextsOfLen(n) : n \in 0..MaxText} :
       resp = [kind |-> "price", text |-> t, out |-> Zero]
  /\ run = 0
  /\ cmcKey = FALSE /\ cgExists = FALSE /\ cmcExists = FALSE /\ skipHist = FALSE
  /\ i = 0
  /\ total = 0
  /\ ev = <<>>
  /\ expect = <<>>
  /\ histRuns = {}
  /\ bodies = 0
  /\ browser = "none" /\ pages = 0
  /\ fs = [p \in Paths |-> Absent]
  /\ fs0 = fs

\* One call of parsePrice on a cell whose text is resp.text.
PriceCall ==
  /\ pc = "p_price"
  /\ resp' = [resp EXCEPT !.out = parsePrice(resp.text)]
  /\ pc' = "done"
  /\ UNCHANGED <<fs, run, env, i, total, ev, expect, fs0, apiVars, scrVars>>

PriceNext == PriceCall

PriceSpec == PriceInit /\ [][PriceNext]_vars

\* -------------------------------------------- parseDate (922-938)
\* A date text is a sequence of tokens: a month name (w = 3 for the short
\* name, 9 for the long one; May is both), a number of w digits, a
\* separator, or a word that is neither.
Mon(m, w) == [k |-> "mon", w |-> w, v |-> m]
Num(w, v) == [k |-> "num", w |-> w, v |-> v]
Lit(k) == [k |-> k, w |-> 0, v |-> 0]

\* The layouts of 924-929, in their order.
Formats ==
  << <<"Jan", "sp", "02", "comma", "2006">>,
     <<"January", "sp", "02", "comma", "2006">>,
     <<"02", "dash", "01", "dash", "2006">>,
     <<"2006", "dash", "01", "dash", "02">> >>

\* One element of a layout against one token of the text.
ElemMatches(e, tok) ==
  CASE e = "Jan" -> tok.k = "mon" /\ tok.w = 3
    [] e = "January" -> tok.k = "mon" /\ (tok.w = 9 \/ tok.v = 5)
    [] e = "02" -> tok.k = "num" /\ tok.w = 2
    [] e = "01" -> tok.k = "num" /\ tok.w = 2
    [] e = "2006" -> tok.k = "num" /\ tok.w = 4
    [] OTHER -> tok.k = e
IsLeap(y) == y % 4 = 0 /\ (y % 100 # 0 \/ y % 400 = 0)
DaysIn(m, y) ==
  IF m = 2 THEN (IF IsLeap(y) THEN 29 ELSE 28)
  ELSE IF m \in {4, 6, 9, 11} THEN 30 ELSE 31
FieldAt(layout, text, elems) == text[CHOOSE k \in 1..Len(layout) : layout[k] \in elems].v
\* time.Parse(layout, text): no error.
TimeParses(layout, text) ==
  /\ Len(text) = Len(layout)
  /\ \A k \in 1..Len(layout) : ElemMatches(layout[k], text[k])
  /\ LET y == FieldAt(layout, text, {"2006"})
         m == FieldAt(layout, text, {"Jan", "January", "01"})
         d == FieldAt(layout, text, {"02"})
     IN m \in 1..12 /\ d >= 1 /\ d <= DaysIn(m, y)
\* t.Format("2006-01-02")
FormatISO(layout, text) ==
  << Num(4, FieldAt(layout, text, {"2006"})), Lit("dash"),
     Num(2, FieldAt(layout, text, {"Jan", "January", "01"})), Lit("dash"),
     Num(2, FieldAt(layout, text, {"02"})) >>
RECURSIVE ParseFrom(_, _, _)
ParseFrom(formats, k, text) ==
  IF k > Len(formats) THEN text
  ELSE IF TimeParses(formats[k], text) THEN FormatISO(formats[k], text)
  ELSE ParseFrom(formats, k + 1, text)
parseDate(text) == ParseFrom(Formats, 1, text)

\* strings.TrimSpace on a date text.
RECURSIVE TrimDate(_)
TrimDate(t) ==
  IF t # <<>> /\ Head(t).k = "sp" THEN TrimDate(Tail(t))
  ELSE IF t # <<>> /\ t[Len(t)].k = "sp" THEN TrimDate(SubSeq(t, 1, Len(t) - 1))
  ELSE t

\* The date cells of a page: a date written in each of the layouts, in
\* forms near them, padded, a word, blanks, nothing.
Years == {2024, 2025}
Months == {2, 5, 12}
Days == {5, 29, 30}
DateForms(y, m, d) ==
  {<<Mon(m, 3), Lit("sp"), Num(2, d), Lit("comma"), Num(4, y)>>,
   <<Mon(m, IF m = 5 THEN 3 ELSE 9), Lit("sp"), Num(2, d), Lit("comma"), Num(4, y)>>,
   <<Num(2, d), Lit("dash"), Num(2, m), Lit("dash"), Num(4, y)>>,
   <<Num(4, y), Lit("dash"), Num(2, m), Lit("dash"), Num(2, d)>>,
   <<Lit("sp"), Num(4, y), Lit("dash"), Num(2, m), Lit("dash"), Num(2, d), Lit("sp")>>,
   <<Mon(m, 3), Lit("sp"), Num(1, d % 10), Lit("comma"), Num(4, y)>>,
   <<Num(2, m), Lit("slash"), Num(2, d), Lit("slash"), Num(4, y)>>,
   <<Num(2, d), Lit("dash"), Num(2, m + 12), Lit("dash"), Num(4, y)>>}
DateTexts ==
  {<<>>, <<Lit("sp")>>, <<Lit("word")>>}
  \cup UNION {DateForms(y, m, d) : y \in Years, m \in Months, d \in Days}
\* The few of them the rows of a whole page are drawn from.
PageDates ==
  {<<>>, <<Lit("word")>>,
   <<Mon(12, 3), Lit("sp"), Num(2, 5), Lit("comma"), Num(4, 2025)>>,
   <<Num(4, 2025), Lit("dash"), Num(2, 2), Lit("dash"), Num(2, 30)>>}

\* ------------------------------------- the rows of a page (853-881)
\* A table row: the text of its first cell and the texts of the cells
\* after it.
PageRow(n, date, close, other) ==
  [date |-> date, cells |-> [k \in 1..(n - 1) |-> IF k = 4 THEN close ELSE other]]
NumCells(row) == 1 + Len(row.cells)
\* parsePrice(cells, index), 887-889 included.
PriceAt(row, index) == IF index >= NumCells(row) THEN Zero ELSE parsePrice(row.cells[index])

CloseTexts ==
  {<<"0">>, <<"x">>, <<"$", "1", "5", "0", ".", "2", "5">>, <<"-", "1">>}
OtherTexts == {<<"x">>, <<"$", "2", ".", "3", "B">>}
\* The first row of a page: every date text beside a good close, the page
\* dates beside every close, in seven cells or eight, and a row of too few
\* cells.  The rows after it: fewer of the same.
FirstRows ==
  {PageRow(7, d, <<"$", "1", "5", "0", ".", "2", "5">>, o) : d \in DateTexts, o \in OtherTexts}
  \cup {PageRow(n, d, c, o) : n \in {7, 8}, d \in PageDates, c \in CloseTexts, o \in OtherTexts}
  \cup {PageRow(6, <<>>, <<"1">>, <<"1">>)}
LaterRows ==
  {PageRow(7, d, c, <<"x">>) : d \in PageDates, c \in {<<"0">>, <<"$", "1", "5", "0", ".", "2", "5">>}}
  \cup {PageRow(6, <<Num(4, 2025), Lit("dash"), Num(2, 2), Lit("dash"), Num(2, 5)>>,
                <<"1">>, <<"1">>)}

\* 859-863 and 866-875: the record of one row.
RecordOf(tok, row) ==
  [TokenSymbol |-> SYMBOLS[tok], TokenName |-> "",
   Date |-> parseDate(TrimDate(row.date)),
   Open |-> PriceAt(row, 1), High |-> PriceAt(row, 2), Low |-> PriceAt(row, 3),
   Close |-> PriceAt(row, 4), Volume |-> PriceAt(row, 5), MarketCap |-> PriceAt(row, 6),
   Source |-> "CoinMarketCap"]
\* 878: the condition under which the record is appended.
ValidDateOnly(data) == data.Date # <<>>
Valid(data) == data.Date # <<>> /\ data.Close.mant > 0
\* 855-857: `continue` on a row of fewer than 7 cells: the records of the
\* rows after it are still collected.
AfterShortRowBreak(rest) == <<>>
AfterShortRow(rest) == rest
\* 853-881: the loop over the rows.
RECURSIVE Records(_, _)
Records(tok, rows) ==
  IF rows = <<>> THEN <<>>
  ELSE LET row == Head(rows)
           rest == Records(tok, Tail(rows))
       IN IF NumCells(row) < 7 THEN AfterShortRow(rest)
          ELSE IF Valid(RecordOf(tok, row)) THEN <<RecordOf(tok, row)>> \o rest
          ELSE rest

RECURSIVE PagesOfLen(_)
PagesOfLen(n) ==
  IF n = 1 THEN {<<r>> : r \in FirstRows}
  ELSE {Append(pg, r) : pg \in PagesOfLen(n - 1), r \in LaterRows}

RowInit ==
  /\ env = [prog |-> "scrapeToken", runs |-> 0, pts |-> 0, io |-> FALSE, net |-> {}]
  /\ pc = "s_rows"
  /\ \E n \in 1..MaxRows : \E pg \in PagesOfLen(n) :
       resp = [kind |-> "page", rows |-> pg]
  /\ run = 0
  /\ cmcKey = FALSE /\ cgExists = FALSE /\ cmcExists = FALSE /\ skipHist = FALSE
  /\ i = 0
  /\ total = 0
  /\ ev = <<>>
  /\ expect = <<>>
  /\ histRuns = {}
  /\ bodies = 0
  /\ browser = "open" /\ pages = 1
  /\ fs = [p \in Paths |-> Absent]
  /\ fs0 = fs

\* The loop of scrapeToken over the rows found on the page of TOKENS[1];
\* expect is the slice it returns.
ScrapeRows ==
  /\ pc = "s_rows"
  /\ expect' = Records(TOKENS[1], resp.rows)
  /\ pc' = "done"
  /\ UNCHANGED <<fs, run, env, i, resp, total, ev, fs0, apiVars, scrVars>>

RowNext == ScrapeRows

RowSpec == RowInit /\ [][RowNext]_vars

\* ------------------------------------------- the writers, field by field
\* The records scrapeToken hands to appendToCSV.
ScrapedRecords ==
  {RecordOf(TOKENS[1], r) : r \in {q \in LaterRows : NumCells(q) >= 7 /\ Valid(RecordOf(TOKENS[1], q))}}

FieldInit ==
  /\ env = [prog |-> "writer", runs |-> 0, pts |-> MaxEntries, io |-> FALSE, net |-> {}]
  /\ \/ /\ pc = "w_hist"
        /\ \E np \in 0..MaxEntries : \E nm \in 0..np : \E nv \in 0..np :
             \E pr \in PointSeqs(np) : \E mc \in PointSeqs(nm) : \E vo \in PointSeqs(nv) :
               resp = HistPayload(pr, mc, vo)
     \/ /\ pc = "w_cur"
        /\ \E n \in 0..MaxEntries : \E cs \in [1..n -> Coins] : resp = CoinPayload("cur", cs)
     \/ /\ pc = "w_cmc"
        /\ \E n \in 0..MaxEntries : \E cs \in [1..n -> Coins] : resp = CoinPayload("cmc", cs)
     \/ /\ pc = "w_scr"
        /\ \E n \in 0..MaxEntries : \E ds \in [1..n -> ScrapedRecords] :
             resp = [kind |-> "scr", data |-> ds]
  /\ run = 1
  /\ cmcKey = FALSE /\ cgExists = FALSE /\ cmcExists = FALSE /\ skipHist = FALSE
  /\ i = 0
  /\ total = 0
  /\ ev = <<>>
  /\ expect = <<>>
  /\ histRuns = {}
  /\ bodies = 0
  /\ browser = "none" /\ pages = 0
  /\ fs = [p \in Paths |-> File(<<HeaderOf(p)>>)]
  /\ fs0 = fs

\* writeCoinGeckoHistoricalToCSV (489-535), every write succeeding
WriteHist ==
  /\ pc = "w_hist"
  /\ LET recs == [k \in 1..Len(resp.prices) |-> HistRecord(resp, k)] IN
       /\ fs' = [fs EXCEPT !["A"] = File(AppendRows(fs["A"].rows, recs))]
       /\ total' = Len(recs)
  /\ pc' = "done"
  /\ UNCHANGED <<run, env, i, resp, ev, expect, fs0, apiVars, scrVars>>

\* writeCoinGeckoCurrentToCSV (537-581), every write succeeding
WriteCur ==
  /\ pc = "w_cur"
  /\ \E now \in ClockReadings :
     LET recs == [k \in 1..Len(resp.coins) |-> CoinRecord(SourceTag("cur"), resp.coins[k], now)] IN
       /\ fs' = [fs EXCEPT !["A"] = File(AppendRows(fs["A"].rows, recs))]
       /\ total' = Len(recs)
  /\ pc' = "done"
  /\ UNCHANGED <<run, env, i, resp, ev, expect, fs0, apiVars, scrVars>>

\* writeCMCDataToCSV (583-630), every write succeeding; a coin without a
\* "USD" quote has the zero CMCQuote (599), which is a coin of null values.
WriteCmc ==
  /\ pc = "w_cmc"
  /\ \E now \in ClockReadings : \E p \in RangeOrders(SourceTag("cmc"), Len(resp.coins)) :
     LET recs == [k \in 1..Len(resp.coins) |->
                    CoinRecord(SourceTag("cmc"), resp.coins[p[k]], now)] IN
       /\ fs' = [fs EXCEPT !["B"] = File(AppendRows(fs["B"].rows, recs))]
       /\ total' = Len(recs)
  /\ pc' = "done"
  /\ UNCHANGED <<run, env, i, resp, ev, expect, fs0, apiVars, scrVars>>

\* 950-962: the record appendToCSV builds for d
ScrRecord(d) ==
  [src |-> d.Source, fields |-> ScrFields(d), ts |-> 0, date |-> d.Date,
   symbol |-> d.TokenSymbol, name |-> d.TokenName,
   price |-> Sprintf(8, d.Close), mcap |-> Sprintf(2, d.MarketCap),
   vol |-> Sprintf(2, d.Volume)]

\* appendToCSV (940-969), every write succeeding
WriteScr ==
  /\ pc = "w_scr"
  /\ LET recs == [k \in 1..Len(resp.data) |-> ScrRecord(resp.data[k])] IN
       /\ fs' = [fs EXCEPT !["C"] = File(AppendRows(fs["C"].rows, recs))]
       /\ total' = Len(recs)
  /\ pc' = "done"
  /\ UNCHANGED <<run, env, i, resp, ev, expect, fs0, apiVars, scrVars>>

FieldNext == WriteHist \/ WriteCur \/ WriteCmc \/ WriteScr

FieldSpec == FieldInit /\ [][FieldNext]_vars

\* --------------------- the scrape phase, call by call (759-812, 814-884)
\* The same phase as ScrLaunch and ScrIter, each call of the browser
\* library a step of its own; pages is the number of pages open.
PhaseInit ==
  /\ env = [prog |-> "scrapePhase", runs |-> 0, pts |-> MaxPoints, io |-> FALSE, net |-> {}]
  /\ pc = "g_launch"
  /\ resp = NoResp
  /\ run = 1
  /\ cmcKey = FALSE /\ cgExists = FALSE /\ cmcExists = FALSE /\ skipHist = FALSE
  /\ i = 0
  /\ total = 0
  /\ ev = <<>>
  /\ expect = <<>>
  /\ histRuns = {}
  /\ bodies = 0
  /\ browser = "none" /\ pages = 0
  /\ \E c \in {File(<<HeaderOf("C")>>), File(<<HeaderOf("C"), OldRow("C")>>)} :
       fs = [p \in Paths |-> IF p = "C" THEN c ELSE Absent]
  /\ fs0 = fs

ScrapeResult(kd, n) == [kind |-> kd, n |-> n, bad |-> 0, full |-> kd = "rows", operr |-> FALSE]

\* 763-778: playwright.Run and Chromium.Launch; log.Fatalf on an error.
PhaseLaunch ==
  /\ pc = "g_launch"
  /\ \/ /\ pc' = "g_new"
        /\ browser' = "open"
        /\ ev' = Append(ev, Event("browser", "open", 0))
     \/ /\ pc' = "fatal"
        /\ UNCHANGED <<browser, ev>>
  /\ UNCHANGED <<fs, run, env, i, resp, total, expect, fs0, apiVars, pages>>

\* 787-790, 818-823: the iteration of TOKENS[i + 1] begins, browser.NewPage.
PhaseNewPage ==
  /\ pc = "g_new"
  /\ \/ /\ pages' = pages + 1
        /\ ev' = Append(ev, Event("page", "open", TOKENS[i + 1]))
        /\ resp' = NoResp
        /\ pc' = "g_goto"
     \/ /\ resp' = ScrapeResult("nopage", 0)      \* 819-822
        /\ pc' = "g_append"
        /\ UNCHANGED <<pages, ev>>
  /\ UNCHANGED <<fs, run, env, i, total, expect, fs0, apiVars, browser>>

\* 830-841: page.Goto
PhaseGoto ==
  /\ pc = "g_goto"
  /\ \/ pc' = "g_rows" /\ resp' = resp
     \/ pc' = "g_close" /\ resp' = ScrapeResult("timeout", 0)     \* 834-838
  /\ UNCHANGED <<fs, run, env, i, total, ev, expect, fs0, apiVars, scrVars>>

\* The selectors of the test script (src/scraper/test/test.go 119-124), the
\* first of which is the one selector of scrapeToken (844).  A page is seen
\* as the number of rows each of them finds; a row under "table tbody tr"
\* is a row under "table tr" too.
Selectors ==
  <<"table tbody tr", "table tr", "[class*='historical'] table tr", "div[class*='table'] tr">>
PagesFound ==
  {f \in [1..Len(Selectors) -> 0..env.pts] : f[1] <= f[2] /\ f[3] <= f[2]}
\* page.Locator("table tbody tr").All() at 844: the rows scrapeToken reads.
RowsLocated(found) == found[1]
\* The loop of the test script (src/scraper/test/test.go 129-156): the
\* first selector that finds a row, 0 when none does.
FirstSelector(found) ==
  IF \E k \in 1..Len(Selectors) : found[k] > 0
  THEN CHOOSE k \in 1..Len(Selectors) : found[k] > 0 /\ \A j \in 1..(k - 1) : found[j] = 0
  ELSE 0
Located(kd, n, found) ==
  [kind |-> kd, n |-> n, bad |-> 0, full |-> kd = "rows", operr |-> FALSE, found |-> found]

\* 844-883: the rows are located and read; n of them pass the gate at 878.
PhaseRows ==
  /\ pc = "g_rows"
  /\ \E found \in PagesFound :
       IF RowsLocated(found) = 0
       THEN resp' = Located("norows", 0, found)         \* 845-848
       ELSE \E n \in 0..RowsLocated(found) : resp' = Located("rows", n, found)
  /\ pc' = "g_close"
  /\ UNCHANGED <<fs, run, env, i, total, ev, expect, fs0, apiVars, scrVars>>

\* 823: the deferred page.Close, run at each return that follows it.
PagesAfterCloseOnRowsOnly(r, n) == IF r.kind = "rows" THEN n - 1 ELSE n
PagesAfterClose(r, n) == n - 1
PhaseClosePage ==
  /\ pc = "g_close"
  /\ pages' = PagesAfterClose(resp, pages)
  /\ ev' = IF pages' < pages THEN Append(ev, Event("page", "close", TOKENS[i + 1])) ELSE ev
  /\ pc' = "g_append"
  /\ UNCHANGED <<fs, run, env, i, resp, total, expect, fs0, apiVars, browser>>

\* 792-808: the records are appended, the loop sleeps unless the token was
\* the last.
PhaseAppend ==
  /\ pc = "g_append"
  /\ LET tok == TOKENS[i + 1]
         new == RowsOf("CoinMarketCap", tok, resp.n)
         last == ~(i < NumTokens - 1)
     IN /\ \/ /\ Len(new) = 0
              /\ UNCHANGED <<fs, total>>
           \/ /\ Len(new) > 0
              /\ \E o \in AppendResults("C", new) :
                   /\ fs' = [fs EXCEPT !["C"] = o.f]
                   /\ total' = IF o.err THEN total ELSE total + Len(new)
        /\ pc' = IF last THEN "g_end" ELSE "g_new"
  /\ i' = i + 1
  /\ UNCHANGED <<run, env, resp, ev, expect, fs0, apiVars, scrVars>>

\* 811, 777: the function returns and the deferred browser.Close runs.
PhaseEnd ==
  /\ pc = "g_end"
  /\ browser' = "closed"
  /\ ev' = Append(ev, Event("browser", "close", 0))
  /\ pc' = "done"
  /\ UNCHANGED <<fs, run, env, i, resp, total, expect, fs0, apiVars, pages>>

PhaseNext ==
  \/ PhaseLaunch
  \/ PhaseNewPage
  \/ PhaseGoto
  \/ PhaseRows
  \/ PhaseClosePage
  \/ PhaseAppend
  \/ PhaseEnd

PhaseSpec == PhaseInit /\ [][PhaseNext]_vars

\* -------------------------------- the times of the requests of a run
\* The requests a run makes to one source, each followed by the sleep of
\* its branch (265-301, 333-360, 406-440) before the next is made.  A
\* request is an event whose x is the second it is issued at; env.lat is
\* the time a request and the work on its answer take.
RateInit ==
  /\ \E src \in {"A", "B"} : \E lat \in 0..2 :
       env = [prog |-> "rate", runs |-> 0, pts |-> 0, io |-> FALSE,
              net |-> {"neterr", "status"}, src |-> src, lat |-> lat]
  /\ pc = "r_loop"
  /\ resp = NoResp
  /\ run = 1
  /\ cmcKey = TRUE /\ cgExists = FALSE /\ cmcExists = FALSE /\ skipHist = FALSE
  /\ i = 0
  /\ total = 0
  /\ ev = <<>>
  /\ expect = <<>>
  /\ histRuns = {}
  /\ bodies = 0
  /\ browser = "none" /\ pages = 0
  /\ fs = [p \in Paths |-> File(<<HeaderOf(p)>>)]
  /\ fs0 = fs

\* The second the next request is issued at: the sleep after the last
\* request is over (time.Sleep returns no earlier than asked).
NextRequestAt ==
  IF ev = <<>> THEN 0
  ELSE ev[Len(ev)].x + env.lat + DelayAfter(env.src, resp.kind)

\* One iteration of a REST loop: the request goes out, its answer is a
\* failure or a payload.
RateIter ==
  /\ pc = "r_loop"
  /\ i < MaxCalls
  /\ ev' = Append(ev, Event("req", env.src, NextRequestAt))
  /\ \E kind \in env.net \cup {"ok"} :
       /\ resp' = [NoResp EXCEPT !.kind = kind]
       /\ bodies' = BodiesAfter(bodies, kind, ~(i + 1 < MaxCalls))
  /\ i' = i + 1
  /\ pc' = IF i + 1 < MaxCalls THEN "r_loop" ELSE "done"
  /\ UNCHANGED <<fs, run, env, total, expect, fs0, cmcKey, cgExists, cmcExists,
                 skipHist, histRuns, scrVars>>

RateNext == RateIter

RateSpec == RateInit /\ [][RateNext]_vars

\* ------------------------------------------------------------ the claims
IsPhaseEv(e) == e.t = "phase"
IsReqEv(e) == e.t = "req"
\* The phases entered in this run, in order.
PhaseLog == LET S == SelectSeq(ev, IsPhaseEv) IN [k \in 1..Len(S) |-> S[k].s]
ModeDecided == \E k \in 1..Len(ev) : ev[k].t = "mode"
WasFile(p) == fs0[p].st = "file"
FirstRun == ~WasFile("A") /\ ~WasFile("B")
HistEntered == \E k \in 1..Len(ev) : ev[k] = Event("phase", "hist", 0)

\* C1: once main has checked the two REST output files, the run is a
\* RecurringRun (SKIP_HISTORICAL set, "APPEND mode" announced, the historical
\* phase never entered) exactly when at least one of the two files existed at
\* startup, and a FirstRun (the historical phase is entered) exactly when
\* both were absent.
C1_RunMode ==
  ModeDecided =>
    /\ skipHist = (WasFile("A") \/ WasFile("B"))
    /\ (\E k \in 1..Len(ev) : ev[k] = Event("mode", "append", 0)) = ~FirstRun
    /\ HistEntered => FirstRun
    /\ (pc \in {"hist", "phase2", "cur", "phase3", "cmc", "done"} /\ FirstRun) => HistEntered

\* A run that found file A and no file B and completed as a RecurringRun.
C1_Witness ==
  /\ pc = "done"
  /\ WasFile("A") /\ fs0["B"].st = "absent"
  /\ skipHist /\ ~HistEntered

ExpectedPhases ==
  (IF FirstRun THEN <<"hist">> ELSE <<>>) \o <<"cur">>
    \o (IF cmcKey THEN <<"cmc">> ELSE <<>>)

\* C2: the phases of an invocation are entered in the order hist (only in a
\* FirstRun), cur (every run), cmc (only with the credential), each at most
\* once; a run that reaches its end has entered exactly these; every request
\* is made inside a phase of its source and no request to source A follows a
\* request to source B.
C2_PhaseOrder ==
  /\ IsPrefix(PhaseLog, ExpectedPhases)
  /\ pc = "done" => PhaseLog = ExpectedPhases
  /\ \A k \in 1..Len(ev) :
       ev[k].t = "req" =>
         /\ \E j \in 1..(k - 1) :
              /\ ev[j].t = "phase"
              /\ ev[j].s \in (IF ev[k].s = "A" THEN {"hist", "cur"} ELSE {"cmc"})
              /\ \A m \in (j + 1)..(k - 1) : ev[m].t # "phase"
         /\ ev[k].s = "B" => \A m \in (k + 1)..Len(ev) : ev[m] # Event("req", "A", ev[m].x)

\* A completed FirstRun with the credential: all three phases, in order.
C2_Witness == pc = "done" /\ PhaseLog = <<"hist", "cur", "cmc">>

\* The invocations whose historical rows for token t are in file A.
HistWriters(t) ==
  {fs["A"].rows[k].run : k \in {j \in 1..Len(fs["A"].rows) :
       /\ fs["A"].rows[j].src = "coingecko_historical"
       /\ fs["A"].rows[j].item = t}}

\* C3: over any sequence of invocations, each possibly interrupted at any
\* step, with no file deleted from outside, at most one invocation enters the
\* historical phase, and no token has historical rows in file A from two
\* invocations.
C3_BackfillOnce ==
  /\ Cardinality(histRuns) <= 1
  /\ \A t \in 1..NumTokens : Cardinality(HistWriters(t)) <= 1

\* A second invocation has completed after a first one that was interrupted
\* in its historical phase with rows already written.
C3_Witness ==
  /\ run = 2 /\ pc = "done"
  /\ histRuns = {1}
  /\ HistWriters(1) = {1}
  /\ HistWriters(NumTokens) = {}
  /\ \E k \in 1..Len(fs["A"].rows) : fs["A"].rows[k].run = 2

\* The rows the writer called in this step was given: the payload handled.
CallRows(src) == [k \in 1..resp'.n |-> Row(src, IF pc = "hist" \/ pc = "s_loop" THEN TOKENS[i + 1] ELSE i, run, k)]
SrcOf(q) ==
  IF q = "hist" THEN "coingecko_historical"
  ELSE IF q = "cur" THEN "coingecko_current"
  ELSE IF q = "cmc" THEN "coinmarketcap" ELSE "CoinMarketCap"
TargetOf(q) == IF q \in {"hist", "cur"} THEN "A" ELSE IF q = "cmc" THEN "B" ELSE "C"

\* The rows written by a writer step go after the rows already there.
\* C4: every call of a writer (one per loop iteration) leaves its file equal
\* to the file before the call followed by the rows the call wrote, an
\* initial part of the call's rows in the order the writer visited them: the
\* row count grows by the number of rows written and no earlier row is
\* removed, reordered or changed.
C4_WriterStep ==
  pc \in {"hist", "cur", "cmc", "s_loop"} =>
    \A p \in Paths :
      \/ fs'[p] = fs[p]
      \/ /\ p = TargetOf(pc)
         /\ fs[p].st = "file" /\ fs'[p].st = "file"
         /\ \E w \in 1..resp'.n : \E o \in RangeOrders(SrcOf(pc), resp'.n) :
              /\ fs'[p].rows = fs[p].rows \o SubSeq(Reordered(CallRows(SrcOf(pc)), o), 1, w)
              /\ Len(fs'[p].rows) = Len(fs[p].rows) + w

C4_AppendOnly == [][C4_WriterStep]_vars

\* A file that held a header and a row at startup has received the rows of
\* two writer calls after them.
C4_Witness ==
  /\ pc = "done"
  /\ fs0["A"].rows = <<HeaderOf("A"), OldRow("A")>>
  /\ Len(fs["A"].rows) >= 4
  /\ fs["A"].rows[3].item # fs["A"].rows[4].item

InitOnFile == \E k \in 1..Len(ev) : ev[k].t = "init" /\ ev[k].x = 1

\* C5: in every invocation of either program an initializer is called on a
\* path only when no file is there, and every row a file held when the
\* invocation started is still in it, unchanged and at the same position.
C5_InitOnlyWhenAbsent ==
  /\ ~InitOnFile
  /\ \A p \in Paths : WasFile(p) => IsPrefix(fs0[p].rows, fs[p].rows)

\* The scraper has called initCSV on a file that held a data row, and the
\* row is gone.
C5_Witness ==
  /\ InitOnFile
  /\ fs0["C"].rows = <<HeaderOf("C"), OldRow("C")>>
  /\ fs["C"].rows = <<HeaderOf("C")>>

HeaderCount(rows) == Cardinality({k \in 1..Len(rows) : IsHeader(rows[k])})

\* C6: after an initializer has been called on a file that began with its
\* header, the file has exactly one header row, the one it had, as its
\* first row.
C6_HeaderKept ==
  \A p \in Paths :
    (/\ \E k \in 1..Len(ev) : ev[k] = Event("init", p, 1)
     /\ fs0[p].rows # <<>>
     /\ fs0[p].rows[1] = HeaderOf(p)
     /\ pc \in {"s_install", "initB", "phase1", "fatal"})
    => /\ HeaderCount(fs[p].rows) = 1
       /\ fs[p].rows[1] = HeaderOf(p)

\* initCSV has returned nil on a file that had its header, and the file is
\* empty.
C6_Witness ==
  /\ pc = "s_install"
  /\ fs0["C"].rows = <<HeaderOf("C")>>
  /\ fs["C"] = File(<<>>)

IsHistRow(r) == r.src = "coingecko_historical" /\ r.run = run
ReqItems == LET S == SelectSeq(ev, IsReqEv) IN [k \in 1..Len(S) |-> S[k].x]

\* C7: when the historical phase is over, every configured token has been
\* requested, in list order, whatever fetches failed; the historical rows
\* appended to file A are exactly the rows of the fetches that succeeded and
\* the total reported is their number.
C7_HistIsolation ==
  (HistEntered /\ pc \in {"phase2", "panic"}) =>
    /\ ReqItems = TOKENS
    /\ fs["A"].st = "file"
    /\ SelectSeq(fs["A"].rows, IsHistRow) = expect
    /\ pc = "phase2" => total = Len(expect)

\* The historical phase has stopped at the second token, after the rows of
\* the first were written.
C7_Witness ==
  /\ pc = "panic"
  /\ HistEntered
  /\ ReqItems = <<TOKENS[1], TOKENS[2]>>
  /\ resp.bad > 0
  /\ Len(SelectSeq(fs["A"].rows, IsHistRow)) = 1

InRestLoop == pc \in {"hist", "cur", "cmc"}
LoopSource == IF pc = "cmc" THEN "B" ELSE "A"
LoopItem == IF pc = "hist" THEN TOKENS[i + 1] ELSE i
LoopStep == IF pc = "hist" THEN 1 ELSE BatchSize
LoopDelay == IF pc = "cmc" THEN CMC_DELAY ELSE CG_DELAY
AfterLoop == IF pc = "hist" THEN "phase2" ELSE IF pc = "cur" THEN "phase3" ELSE "done"
\* The step is a failed item of the running loop: no file changes, the
\* total stays, the request is followed by the source's sleep and the loop
\* goes on with the next item (or ends after the last).
FailedItemStep ==
  /\ fs' = fs
  /\ total' = total
  /\ SubSeq(ev', 1, Len(ev) + 2)
       = ev \o <<Event("req", LoopSource, LoopItem), Event("sleep", "-", LoopDelay)>>
  /\ i' = i + LoopStep
  /\ pc' = IF i' < NumTokens THEN pc ELSE AfterLoop

C8_Step == (InRestLoop /\ resp'.kind \in FailKinds) => FailedItemStep

\* C8: in each of the three REST loops, an item whose call ends in a network
\* error, a non-200 status, a body-read error or a decode error changes no
\* file, adds nothing to the total, is followed by the source's sleep, and
\* the loop goes on with the next item.
C8_FailuresAlike == [][C8_Step]_vars

\* A body-read error in the current-A loop whose rows are in file A.
C8_Witness ==
  /\ pc = "cur"
  /\ resp.kind = "readerr"
  /\ total > 0
  /\ \E k \in 1..Len(fs["A"].rows) : fs["A"].rows[k].src = "coingecko_current"

C9_Step == (pc = "cmc" /\ resp'.kind = "apierr") => FailedItemStep

\* C9: a source-B response with status 200 and a non-zero error code in its
\* status block is a failed call: nothing is appended to any file, the total
\* stays, the CMC_DELAY sleep follows and the loop goes on with the next batch.
C9_ProviderError == [][C9_Step]_vars

\* The first batch got a provider error with an entry in its payload; the
\* loop is at the second batch and file B holds no row of source B.
C9_Witness ==
  /\ pc = "cmc"
  /\ i = BatchSize
  /\ resp.kind = "apierr"
  /\ resp.n >= 1
  /\ fs["B"].st = "file"
  /\ \A k \in 1..Len(fs["B"].rows) : fs["B"].rows[k].src # "coinmarketcap"
  /\ ev[Len(ev)] = Event("sleep", "-", CMC_DELAY)

DelayOf(src) == IF src = "A" THEN CG_DELAY ELSE CMC_DELAY

\* C10: between two consecutive requests to the same source there is a sleep
\* of that source's delay (CG_DELAY for A, also from the historical to the
\* current phase; CMC_DELAY for B), whatever the outcome of the first.
C10_SleepBetween ==
  \A j \in 1..Len(ev) : \A k \in (j + 1)..Len(ev) :
    (/\ ev[j].t = "req" /\ ev[k].t = "req"
     /\ ev[j].s = ev[k].s
     /\ \A m \in (j + 1)..(k - 1) : ~(ev[m].t = "req" /\ ev[m].s = ev[j].s))
    => \E m \in (j + 1)..(k - 1) : ev[m] = Event("sleep", "-", DelayOf(ev[j].s))

\* A completed FirstRun with the credential in which no historical fetch and
\* no source-B call succeeded: requests to A on both sides of the phase
\* boundary and two requests to B, the first of each pair a failure.
C10_Witness ==
  /\ pc = "done"
  /\ PhaseLog = <<"hist", "cur", "cmc">>
  /\ \A k \in 1..Len(fs["A"].rows) : fs["A"].rows[k].src # "coingecko_historical"
  /\ resp.kind = "status"
  /\ total = 0
  /\ Len(SelectSeq(ev, IsReqEv)) > NumTokens + 2

IsSleepEv(e) == e.t = "sleep"
\* The events the step adds to the history.
NewEvents == SubSeq(ev', Len(ev) + 1, Len(ev'))
InAnyLoop == pc \in {"hist", "cur", "cmc", "s_loop"}
AnyLoopDelay == IF pc = "s_loop" THEN SCRAPE_DELAY ELSE LoopDelay

C11_Step ==
  (InAnyLoop /\ i' # i) =>
    SelectSeq(NewEvents, IsSleepEv) = <<Event("sleep", "-", AnyLoopDelay)>>

\* C11: in each of the four collection loops every completed iteration,
\* whatever its outcome and the last one included, ends with exactly one
\* sleep of the source's delay.
C11_SleepEveryIteration == [][C11_Step]_vars

\* The scrape loop has ended and the last thing before its report is the
\* last token's request: no sleep followed it.
C11_Witness ==
  /\ pc = "done"
  /\ browser = "closed"
  /\ Len(ev) >= 2
  /\ ev[Len(ev)] = Event("report", "scrape", 0)
  /\ ev[Len(ev) - 1] = Event("req", "C", TOKENS[NumTokens])

\* C12: in a run whose CMC_API_KEY is empty no request goes to source B, the
\* source-B phase is never entered, file B gets no data row of this run, and
\* a run that reaches its end has gone through the source-A phases and from
\* the end of the current-A loop straight to completion.
C12_NoCredential ==
  ~cmcKey =>
    /\ \A k \in 1..Len(ev) : ~(ev[k].t = "req" /\ ev[k].s = "B")
    /\ \A k \in 1..Len(ev) : ev[k] # Event("phase", "cmc", 0)
    /\ pc # "cmc"
    /\ \A k \in 1..Len(fs["B"].rows) :
         ~(fs["B"].rows[k].src = "coinmarketcap" /\ fs["B"].rows[k].run = run)
    /\ WasFile("B") => fs["B"] = fs0["B"]
    /\ pc = "done" =>
         /\ PhaseLog = (IF FirstRun THEN <<"hist">> ELSE <<>>) \o <<"cur">>
         /\ ev[Len(ev)] = Event("report", "cur", 0)

\* A FirstRun without the credential has completed: both source-A phases
\* ran and file B holds its header only.
C12_Witness ==
  /\ pc = "done"
  /\ run = 1
  /\ ~cmcKey
  /\ PhaseLog = <<"hist", "cur">>
  /\ fs["B"] = File(<<HeaderOf("B")>>)
  /\ \E k \in 1..Len(fs["A"].rows) : fs["A"].rows[k].src = "coingecko_current"

Ceil(n, b) == (n + b - 1) \div b
RECURSIVE Concat(_)
Concat(ss) == IF ss = <<>> THEN <<>> ELSE Head(ss) \o Concat(Tail(ss))
\* The batches dispatched so far, in dispatch order.
Dispatched == [k \in 1..Len(ev) |-> ev[k].x]

\* C13: for a list of length N and batch size B the batching loop dispatches
\* ceil(N/B) batches; every batch is non-empty and no longer than B; the last
\* has length N mod B, or B when N mod B = 0; and the batches concatenated in
\* dispatch order are the list (what has been dispatched so far is always an
\* initial part of it).
C13_Batching ==
  /\ \A k \in 1..Len(Dispatched) :
       Len(Dispatched[k]) >= 1 /\ Len(Dispatched[k]) <= env.b
  /\ IsPrefix(Concat(Dispatched), ListOf(env.n))
  /\ pc = "done" =>
       /\ Len(Dispatched) = Ceil(env.n, env.b)
       /\ Concat(Dispatched) = ListOf(env.n)
       /\ env.n > 0 =>
            Len(Dispatched[Len(Dispatched)])
              = (IF env.n % env.b = 0 THEN env.b ELSE env.n % env.b)

\* A list of 5 in batches of 2: three batches, the last of length 1.
C13_Witness ==
  /\ pc = "done"
  /\ env.n = 5 /\ env.b = 2
  /\ Dispatched = <<<<1, 2>>, <<3, 4>>, <<5>>>>

\* The data rows of file p (the rows after the header).
DataRows(p) == Tail(fs[p].rows)
WrittenBy(kind) == pc = "done" /\ resp.kind = kind

\* C14: for a historical payload with P price points, M <= P market-cap
\* points and V <= P volume points the writer produces P rows, row k from
\* price point k and the market cap and volume of the same index; in the
\* rows past M the market-cap field is empty, in the rows past V the volume
\* field is empty.
C14_HistAlignment ==
  WrittenBy("hist") =>
    /\ Len(DataRows("A")) = Len(resp.prices)
    /\ total = Len(resp.prices)
    /\ \A k \in 1..Len(DataRows("A")) :
         LET r == DataRows("A")[k] IN
         /\ r.ts = resp.prices[k].ts
         /\ k <= Len(resp.mcaps) => r.mcap = Sprintf(2, FloatOf(resp.mcaps[k].v))
         /\ k <= Len(resp.vols) => r.vol = Sprintf(2, FloatOf(resp.vols[k].v))
         /\ k > Len(resp.mcaps) => r.mcap = EmptyField
         /\ k > Len(resp.vols) => r.vol = EmptyField

\* Two price points, one market-cap point and no volume point: two rows,
\* the second with the market cap printed as 0.00 and both with the volume
\* printed as 0.00.
C14_Witness ==
  /\ WrittenBy("hist")
  /\ Len(resp.prices) = 2 /\ Len(resp.mcaps) = 1 /\ Len(resp.vols) = 0
  /\ Len(DataRows("A")) = 2
  /\ DataRows("A")[2].mcap = Sprintf(2, 0)
  /\ DataRows("A")[1].vol = Sprintf(2, 0)

\* The field written for the JSON value j: empty when j is absent.
AbsentAsEmpty(j, f) == j.null => f = EmptyField

\* C15: in every row written to file A or B a price, market cap or volume
\* that is null or missing in the payload is written as an empty field,
\* never as a zero.
C15_AbsentNotZero ==
  /\ WrittenBy("hist") =>
       \A k \in 1..Len(DataRows("A")) :
         /\ AbsentAsEmpty(resp.prices[k].v, DataRows("A")[k].price)
         /\ k <= Len(resp.mcaps) => AbsentAsEmpty(resp.mcaps[k].v, DataRows("A")[k].mcap)
         /\ k <= Len(resp.vols) => AbsentAsEmpty(resp.vols[k].v, DataRows("A")[k].vol)
  /\ \A p \in {"A", "B"} :
       WrittenBy(IF p = "A" THEN "cur" ELSE "cmc") =>
         \A k \in 1..Len(DataRows(p)) :
           /\ AbsentAsEmpty(resp.coins[k].price, DataRows(p)[k].price)
           /\ AbsentAsEmpty(resp.coins[k].mcap, DataRows(p)[k].mcap)
           /\ AbsentAsEmpty(resp.coins[k].vol, DataRows(p)[k].vol)

\* A source-B coin with a price and a null market cap is in file B with the
\* market cap printed as 0.00.
C15_Witness ==
  /\ WrittenBy("cmc")
  /\ Len(DataRows("B")) = 1
  /\ resp.coins[1].mcap = JNull /\ resp.coins[1].price = JNum(7)
  /\ DataRows("B")[1].mcap = Sprintf(2, 0)
  /\ DataRows("B")[1].price = Sprintf(8, 7)

InitCalled(p) == \E k \in 1..Len(ev) : ev[k].t = "init" /\ ev[k].s = p
\* The initializer was called on p in this run and did not leave a file
\* that begins with its header: the create or the header write failed.
InitFailed(p) ==
  /\ InitCalled(p)
  /\ \/ fs[p].st # "file"
     \/ fs[p].rows = <<>>
     \/ fs[p].rows[1] # HeaderOf(p)

\* C16: when the creation of a REST output file or the write of its header
\* fails during initialization, the run has halted: it is in no phase and
\* has issued no request.
C16_InitFailureHalts ==
  \A p \in {"A", "B"} :
    InitFailed(p) =>
      /\ pc = "fatal"
      /\ PhaseLog = <<>>
      /\ \A k \in 1..Len(ev) : ev[k].t # "req"

\* A FirstRun has completed although the header of file A was never
\* written: the first row of file A is a historical data row.
C16_Witness ==
  /\ pc = "done"
  /\ InitCalled("A")
  /\ fs["A"].st = "file" /\ fs["A"].rows # <<>>
  /\ fs["A"].rows[1].src = "coingecko_historical"

C17_Step ==
  /\ resp'.operr => pc' = "fatal"
  /\ resp.operr => \A k \in 1..Len(NewEvents) : NewEvents[k].t # "req"

\* C17: when a writer cannot open its file the run halts at once, and no
\* further item is requested afterwards.
C17_OpenFailureHalts == [][C17_Step]_vars

\* The writer could not open file A for the first token's rows and the
\* historical loop is at the second token, the sleep done.
C17_Witness ==
  /\ pc = "hist"
  /\ i = 1
  /\ resp.operr
  /\ resp.n >= 1
  /\ ev[Len(ev)] = Event("sleep", "-", CG_DELAY)

C18_Step == (InRestLoop /\ resp'.operr) => (fs' = fs /\ total' = total)

\* C18: an append to a REST output file whose open fails writes no row,
\* adds 0 to the phase total and leaves every output file as it was.
C18_OpenFailureWritesNothing == [][C18_Step]_vars

\* The open failed for the second batch of source B, which carried a row,
\* after the first batch's row was written and counted.
C18_Witness ==
  /\ pc = "done"
  /\ resp.operr
  /\ resp.kind = "ok" /\ resp.n >= 1
  /\ total >= 1
  /\ \E k \in 1..Len(fs["B"].rows) : fs["B"].rows[k].src = "coinmarketcap"

Unreadable(p) == fs0[p].st = "staterr"

\* C19: the run-mode check always returns: once the process is past it the
\* mode has been decided, and a path whose status could not be read was
\* reported as not existing.
C19_FileExistsReturns ==
  pc \notin {"idle", "start", "fatal"} =>
    /\ ModeDecided
    /\ Unreadable("A") => ~cgExists
    /\ Unreadable("B") => ~cmcExists

\* The process has died in the check of a file A whose status cannot be
\* read, before any mode was decided.
C19_Witness ==
  /\ pc = "panic"
  /\ Unreadable("A")
  /\ ev = <<>>
  /\ fs = fs0

\* The phase a request was made in: the last phase entered before it.
PhaseOfReq(k) ==
  LET before == {j \in 1..(k - 1) : ev[j].t = "phase"}
  IN ev[CHOOSE j \in before : \A m \in before : m <= j].s

\* C20: within one run no item is requested twice: the requests of a phase
\* are for pairwise different tokens or batches, whether they succeeded or
\* failed, and each phase makes at most as many requests as it has items.
C20_RequestedOnce ==
  /\ \A j \in 1..Len(ev) : \A k \in (j + 1)..Len(ev) :
       (/\ ev[j].t = "req" /\ ev[k].t = "req"
        /\ PhaseOfReq(j) = PhaseOfReq(k))
       => ev[j].x # ev[k].x
  /\ Len(SelectSeq(ev, IsReqEv)) <= NumTokens + 2 * Ceil(NumTokens, BatchSize)

\* A completed run of all three phases whose last call failed: every token
\* and every batch was requested, none of them twice.
C20_Witness ==
  /\ pc = "done"
  /\ PhaseLog = <<"hist", "cur", "cmc">>
  /\ resp.kind = "neterr"
  /\ Len(SelectSeq(ev, IsReqEv)) = NumTokens + 2 * Ceil(NumTokens, BatchSize)

PastInit == ModeDecided /\ pc \notin {"initA", "initB", "fatal"}

\* C21: an invocation that has passed initialization never stops before its
\* end: whatever the calls returned, it has either reported completion or has
\* a next step to take (every call and every sleep returns, so every step
\* that can be taken is taken).
C21_ReachesEnd == PastInit => (pc = "done" \/ ENABLED Next)

\* The process has died in the historical loop at the last token, all
\* earlier tokens handled.
C21_Witness ==
  /\ pc = "panic"
  /\ PastInit
  /\ i = NumTokens - 1
  /\ ~ENABLED Next

\* The text without the currency sign, the separators and the multiplier
\* letters.
ScaleLetters == {"B", "b", "M", "m"}
Stripped(t) ==
  LET Keep(ch) == ch \notin {"$", ","} \cup ScaleLetters IN TrimSpace(SelectSeq(t, Keep))
\* The text ends in one letter of `letters` and holds no other multiplier
\* letter.
SuffixedBy(t, letters) ==
  LET u == TrimSpace(t) IN
  /\ u # <<>>
  /\ u[Len(u)] \in letters
  /\ \A k \in 1..(Len(u) - 1) : u[k] \notin ScaleLetters
ParsedPrice == pc = "done" /\ env.prog = "parsePrice"

\* C23: parsePrice drops the currency sign and the thousands separators
\* and scales by 10^9 on a B or b suffix and by 10^6 on an M or m suffix:
\* "$1,234.50" gives 1234.50 and "$2.3B" gives 2300000000.  A text that is
\* no number once cleaned gives 0.  (That a 0 in a field other than the
\* close does not drop the row is part of C22_Gate.)
C23_ParsePrice ==
  ParsedPrice =>
    LET t == resp.text
        s == Stripped(t)
    IN /\ (t = <<"$", "1", ",", "2", "3", "4", ".", "5", "0">>)
            => resp.out = [mant |-> 12345, exp |-> -1]
       /\ (t = <<"$", "2", ".", "3", "B">>) => resp.out = [mant |-> 23, exp |-> 8]
       /\ ~IsFloatText(s) => resp.out = Zero
       /\ IsFloatText(s) /\ (\A k \in 1..Len(t) : t[k] \notin ScaleLetters)
            => resp.out = ParseFloat(s)
       /\ IsFloatText(s) /\ SuffixedBy(t, {"B", "b"})
            => resp.out = Times10(ParseFloat(s), 9)
       /\ IsFloatText(s) /\ SuffixedBy(t, {"M", "m"})
            => resp.out = Times10(ParseFloat(s), 6)

C23_Witness ==
  /\ ParsedPrice
  /\ resp.text = <<"$", "2", ".", "3", "B">>
  /\ resp.out = [mant |-> 23, exp |-> 8]

ScrapedRows == pc = "done" /\ env.prog = "scrapeToken"
\* The rows of the page that reach the parsers.
IsParsed(row) == NumCells(row) >= 7
ParsedRows == SelectSeq(resp.rows, IsParsed)
DateOf(row) == parseDate(TrimDate(row.date))
CloseOf(row) == PriceAt(row, 4)
PassesGate(row) == DateOf(row) # <<>> /\ CloseOf(row).mant > 0

\* C22: scrapeToken returns, in page order, one record for each parsed row
\* whose parsed date is not empty and whose parsed close is above 0, and
\* none for any other row: a date with close 0 is dropped, an empty date
\* with close 150.25 is dropped, and no other cell of the row matters.
C22_Gate ==
  ScrapedRows =>
    LET kept == SelectSeq(ParsedRows, PassesGate) IN
    /\ Len(expect) = Len(kept)
    /\ \A k \in 1..Len(kept) :
         /\ expect[k].Date = DateOf(kept[k])
         /\ expect[k].Close = CloseOf(kept[k])
         /\ expect[k].Open = PriceAt(kept[k], 1)

C22_Witness ==
  /\ ScrapedRows
  /\ Len(resp.rows) = 2
  /\ IsParsed(resp.rows[1]) /\ DateOf(resp.rows[1]) # <<>> /\ CloseOf(resp.rows[1]) = Zero
  /\ IsParsed(resp.rows[2]) /\ PassesGate(resp.rows[2])
  /\ resp.rows[2].cells[1] = <<"x">>
  /\ Len(expect) = 1
  /\ expect[1].Close = [mant |-> 15025, exp |-> -2]
  /\ expect[1].Open = Zero

\* A text of the form YYYY-MM-DD.
IsISO(d) ==
  /\ Len(d) = 5
  /\ d[1].k = "num" /\ d[1].w = 4
  /\ d[2].k = "dash"
  /\ d[3].k = "num" /\ d[3].w = 2 /\ d[3].v \in 1..12
  /\ d[4].k = "dash"
  /\ d[5].k = "num" /\ d[5].w = 2 /\ d[5].v \in 1..31
Matching(t) == {f \in 1..Len(Formats) : TimeParses(Formats[f], t)}

\* C24: parseDate gives the date of the first layout that parses the text,
\* as YYYY-MM-DD, and the text itself when none does; a row whose date no
\* layout parses is not among the records scrapeToken returns for writing.
C24_UnparsedDiscarded ==
  ScrapedRows =>
    /\ \A k \in 1..Len(ParsedRows) :
         LET t == TrimDate(ParsedRows[k].date)
             d == DateOf(ParsedRows[k])
         IN IF Matching(t) # {}
            THEN LET f == CHOOSE g \in Matching(t) : \A h \in Matching(t) : g <= h
                 IN IsISO(d) /\ d = FormatISO(Formats[f], t)
            ELSE d = t
    /\ \A k \in 1..Len(expect) : IsISO(expect[k].Date)

C24_Witness ==
  /\ ScrapedRows
  /\ Len(resp.rows) = 1
  /\ resp.rows[1].date = <<Lit("word")>>
  /\ Matching(resp.rows[1].date) = {}
  /\ Len(expect) = 1
  /\ expect[1].Date = <<Lit("word")>>

NoRowsKinds == {"nopage", "timeout", "norows"}
C25_Step ==
  (pc = "s_loop" /\ i' = i + 1) =>
    /\ NewEvents[1] = Event("req", "C", TOKENS[i + 1])
    /\ pc' = IF i + 1 < NumTokens THEN "s_loop" ELSE "done"
    /\ IsPrefix(fs["C"].rows, fs'["C"].rows)
    /\ resp'.kind \in NoRowsKinds => (fs' = fs /\ total' = total)
    /\ pc' = "done" => ReqItems' = TOKENS

\* C25: an iteration of the scrape loop whose token gives no page, a page
\* that does not load or a page without rows leaves the file and the total
\* as they were and goes on to the next token of the list; the loop ends
\* only after the last token, every token requested in list order, and no
\* iteration takes away a row that was in the file.
C25_ScrapeIsolation == [][C25_Step]_vars

C25_Witness ==
  /\ env.prog = "scraper"
  /\ pc = "done"
  /\ ReqItems = TOKENS
  /\ resp.kind = "norows"
  /\ \E k \in 1..Len(fs["C"].rows) : fs["C"].rows[k].src = "CoinMarketCap"
  /\ \E k \in 1..Len(ev) : ev[k] = Event("sleep", "-", SCRAPE_DELAY)

IsLifeEv(e) == e.t \in {"browser", "page"}
LifeLog == SelectSeq(ev, IsLifeEv)
Count(sq, e) == Cardinality({k \in 1..Len(sq) : sq[k] = e})
InPage == pc \in {"g_goto", "g_rows", "g_close"}

\* C26: in the scrape phase the browser is opened once, before any page,
\* and closed once, after the last token and after every page; a token's
\* page is opened at most once and is closed before anything else is
\* opened or closed, whichever way scrapeToken returns; so never more than
\* one page is open and none is open once the browser is closed.
C26_PageLifecycle ==
  env.prog = "scrapePhase" =>
    LET L == LifeLog IN
    /\ pages \in {0, 1}
    /\ pages = 1 <=> InPage
    /\ pages = 1 => browser = "open"
    /\ browser = "closed" => pages = 0
    /\ browser = "closed" <=> pc = "done"
    /\ L # <<>> => L[1] = Event("browser", "open", 0)
    /\ Count(L, Event("browser", "open", 0)) <= 1
    /\ Count(L, Event("browser", "close", 0)) = (IF pc = "done" THEN 1 ELSE 0)
    /\ pc = "done" => L[Len(L)] = Event("browser", "close", 0) /\ i = NumTokens
    /\ \A k \in 1..Len(L) :
         (L[k].t = "page" /\ L[k].s = "open") =>
           /\ Count(L, L[k]) = 1
           /\ L[k].x \in {TOKENS[j] : j \in 1..Min(i + 1, NumTokens)}
           /\ IF k = Len(L) THEN InPage /\ L[k].x = TOKENS[i + 1]
              ELSE L[k + 1] = Event("page", "close", L[k].x)

C26_Witness ==
  /\ env.prog = "scrapePhase"
  /\ pc = "done"
  /\ browser = "closed" /\ pages = 0
  /\ Count(LifeLog, Event("page", "close", TOKENS[1])) = 1
  /\ Count(LifeLog, Event("page", "open", TOKENS[2])) = 0
  /\ Count(LifeLog, Event("page", "close", TOKENS[NumTokens])) = 1
  /\ resp.kind = "timeout"

HasLocated == env.prog = "scrapePhase" /\ pc \in {"g_close", "g_append"} /\ resp.kind \in {"norows", "rows"}

\* C27: the rows of a page are those of the first selector, in the order of
\* the list, that finds at least one; a token is left without rows for want
\* of a table only when no selector of the list finds a row.
C27_SelectorCascade ==
  HasLocated =>
    /\ resp.kind = "norows" <=> FirstSelector(resp.found) = 0
    /\ resp.kind = "rows" => resp.n <= resp.found[FirstSelector(resp.found)]

C27_Witness ==
  /\ HasLocated
  /\ resp.kind = "norows"
  /\ resp.found[1] = 0
  /\ resp.found[2] = 1
  /\ FirstSelector(resp.found) = 2

WriterKinds == {"hist", "cur", "cmc", "scr"}
\* The file a path writes to.
FileOf(kind) == IF kind \in {"hist", "cur"} THEN "A" ELSE IF kind = "cmc" THEN "B" ELSE "C"
LastField(r) == r.fields[Len(r.fields)]

\* C28: every data row a writer appends has in its last field the tag of
\* the path that wrote it, which is not empty, and the tags of the four
\* paths (historical A, current A, B, scrape) differ from one another.
C28_SourceTags ==
  /\ \A k1, k2 \in WriterKinds : SourceTag(k1) = SourceTag(k2) => k1 = k2
  /\ \A kind \in WriterKinds :
       WrittenBy(kind) =>
         \A k \in 1..Len(DataRows(FileOf(kind))) :
           /\ LastField(DataRows(FileOf(kind))[k]) # ""
           /\ LastField(DataRows(FileOf(kind))[k]) = SourceTag(kind)

C28_Witness ==
  /\ WrittenBy("scr")
  /\ Len(DataRows("C")) = 2
  /\ LastField(DataRows("C")[2]) = "CoinMarketCap"

\* What a column of a header is filled from in the record literals.
Fills(col) ==
  CASE col = "timestamp" -> {"timestamp"}
    [] col = "date" -> {"date", "d.Date"}
    [] col = "token_id" -> {"tokenID", "coin.ID"}
    [] col = "symbol" -> {"coin.Symbol"}
    [] col = "name" -> {"coin.Name"}
    [] col = "slug" -> {"coin.Slug"}
    [] col = "price" -> {"price", "coin.CurrentPrice", "quote.Price"}
    [] col = "market_cap" -> {"marketCap", "coin.MarketCap", "quote.MarketCap", "d.MarketCap"}
    [] col = "total_volume" -> {"volume", "coin.TotalVolume"}
    [] col = "high_24h" -> {"coin.High24h"}
    [] col = "low_24h" -> {"coin.Low24h"}
    [] col = "price_change_24h" -> {"coin.PriceChange24h"}
    [] col = "price_change_percentage_24h" -> {"coin.PriceChangePercentage24h"}
    [] col = "circulating_supply" -> {"coin.CirculatingSupply"}
    [] col = "total_supply" -> {"coin.TotalSupply"}
    [] col = "max_supply" -> {"coin.MaxSupply"}
    [] col = "ath" -> {"coin.ATH"}
    [] col = "ath_date" -> {"coin.ATHDate"}
    [] col = "volume_24h" -> {"quote.Volume24h"}
    [] col = "volume_change_24h" -> {"quote.VolumeChange24h"}
    [] col = "percent_change_1h" -> {"quote.PercentChange1h"}
    [] col = "percent_change_24h" -> {"quote.PercentChange24h"}
    [] col = "percent_change_7d" -> {"quote.PercentChange7d"}
    [] col = "market_cap_dominance" -> {"quote.MarketCapDominance"}
    [] col = "last_updated" -> {"quote.LastUpdated"}
    [] col = "token_symbol" -> {"d.TokenSymbol"}
    [] col = "token_name" -> {"d.TokenName"}
    [] col = "open" -> {"d.Open"}
    [] col = "high" -> {"d.High"}
    [] col = "low" -> {"d.Low"}
    [] col = "close" -> {"d.Close"}
    [] col = "volume" -> {"d.Volume"}
    [] OTHER -> {SourceTag(kind) : kind \in WriterKinds}
\* The columns a historical row leaves empty.
SnapshotOnly ==
  {"symbol", "name", "high_24h", "low_24h", "price_change_24h",
   "price_change_percentage_24h", "circulating_supply", "total_supply", "ath", "ath_date"}

\* C29: a row written to a file has as many fields as the header of the
\* file (17 in A, 18 in B, 10 in C), each field printed from the value its
\* column names; a historical row has the symbol, the name and the eight
\* columns of the snapshot empty, and no other.
C29_RowShape ==
  /\ Len(Headers("A")) = 17 /\ Len(Headers("B")) = 18 /\ Len(Headers("C")) = 10
  /\ \A kind \in WriterKinds :
       WrittenBy(kind) =>
         LET h == Headers(FileOf(kind)) IN
         \A k \in 1..Len(DataRows(FileOf(kind))) :
           LET f == DataRows(FileOf(kind))[k].fields IN
           /\ Len(f) = Len(h)
           /\ \A c \in 1..Len(h) :
                IF kind = "hist" /\ h[c] \in SnapshotOnly THEN f[c] = ""
                ELSE f[c] \in Fills(h[c])

C29_Witness ==
  /\ WrittenBy("hist")
  /\ Len(DataRows("A")) = 2
  /\ Len(DataRows("A")[2].fields) = 17
  /\ DataRows("A")[2].fields[4] = ""
  /\ DataRows("A")[2].fields[16] = ""
  /\ DataRows("A")[2].fields[17] = "coingecko_historical"

TagsOfA == {SourceTag("hist"), SourceTag("cur")}
TagsOfB == {SourceTag("cmc")}
HasTag(p, tags) == \E k \in 1..Len(fs[p].rows) : fs[p].rows[k].src \in tags
C30_Step ==
  /\ pc \in {"hist", "cur"} => fs'["B"] = fs["B"] /\ fs'["C"] = fs["C"]
  /\ pc = "cmc" => fs'["A"] = fs["A"] /\ fs'["C"] = fs["C"]
  /\ ~HasTag("A", TagsOfB)' /\ ~HasTag("B", TagsOfA)'

\* C30: an iteration of the historical or of the current phase changes no
\* file but A, an iteration of the source-B phase changes no file but B, and
\* no row of one source is ever in the file of the other.
C30_FilesApart == [][C30_Step]_vars

C30_Witness ==
  /\ env.prog = "api"
  /\ pc = "done"
  /\ HasTag("A", {SourceTag("hist")}) /\ HasTag("A", {SourceTag("cur")})
  /\ HasTag("B", TagsOfB)
  /\ Len(fs["A"].rows) > Len(fs0["A"].rows)
  /\ Len(fs["B"].rows) > Len(fs0["B"].rows)

\* C31: in every row written to file A or B the date is the calendar date
\* of the instant in the timestamp of the same row, in the rows of the
\* historical writer and in the rows of the two snapshot writers.
C31_DateOfTimestamp ==
  \A kind \in {"hist", "cur", "cmc"} :
    WrittenBy(kind) =>
      \A k \in 1..Len(DataRows(FileOf(kind))) :
        DataRows(FileOf(kind))[k].date = CalendarDate(DataRows(FileOf(kind))[k].ts)

C31_Witness ==
  /\ WrittenBy("cur")
  /\ Len(DataRows("A")) = 1
  /\ DataRows("A")[1].ts = 86399
  /\ DataRows("A")[1].date = 1

\* The tokens the historical phase has asked the provider for.
HistRequested == {ev[k].x : k \in {j \in 1..Len(ev) : ev[j].t = "req" /\ PhaseOfReq(j) = "hist"}}

\* C32: every identifier of the configured list has an entry in the
\* catalog, the catalog has no entry for an identifier that is not in the
\* list, and so every token a run asks for is a cataloged one.
C32_Catalog ==
  /\ \A k \in 1..Len(TokenNames) : TokenNames[k] \in DOMAIN TOKEN_METADATA
  /\ \A t \in DOMAIN TOKEN_METADATA : \E k \in 1..Len(TokenNames) : TokenNames[k] = t
  /\ \A x \in HistRequested : TokenNames[x] \in DOMAIN TOKEN_METADATA

C32_Witness ==
  /\ env.prog = "api"
  /\ pc = "done"
  /\ HistRequested = {TOKENS[k] : k \in 1..NumTokens}
  /\ TOKEN_METADATA[TokenNames[TOKENS[NumTokens]]].Name # ""
  /\ TOKEN_METADATA[TokenNames[Len(TokenNames)]].Symbol = "apt"

C33_Step ==
  (pc = "hist" /\ ev' # ev /\ resp'.kind = "ok" /\ resp'.bad > 0) =>
    /\ pc' # "panic"
    /\ fs' = fs /\ total' = total
    /\ i' = i + 1
    /\ SelectSeq(NewEvents, IsSleepEv) = <<Event("sleep", "-", CG_DELAY)>>

\* C33: a historical payload that decodes but has an entry of fewer than two
\* numbers is handled as a failed fetch is: no file changes, nothing is
\* added to the total, the loop sleeps and goes on with the next token.
C33_MalformedPayload == [][C33_Step]_vars

\* The process has died at the first token on a payload whose first entry
\* is short; no later token was asked for.
C33_Witness ==
  /\ pc = "panic"
  /\ resp.kind = "ok" /\ resp.bad = 1
  /\ ReqItems = <<TOKENS[1]>>
  /\ i = 0

C34_Step ==
  (InAnyLoop /\ i' # i) =>
    total' - total = Len(fs'[TargetOf(pc)].rows) - Len(fs[TargetOf(pc)].rows)

\* C34: the total of a phase grows with each item by the number of rows the
\* item added to the file of the phase, so the total reported at the end of
\* the phase is the number of rows the phase added: nothing for a failed
\* item, and every row that reached the file counted.
C34_TotalIsRowsAdded == [][C34_Step]_vars

\* The historical phase is over and reports more rows than file A holds
\* of it.
C34_Witness ==
  /\ env.prog = "api"
  /\ pc = "phase2"
  /\ HistEntered
  /\ fs["A"].st = "file"
  /\ total > Len(SelectSeq(fs["A"].rows, IsHistRow))

IsShort(row) == NumCells(row) < 7
\* C35: a row of fewer than 7 cells gives no record and no error, the rows
\* after it are processed as if it were not there, and every row of 7 cells
\* or more goes through the gate: the result is that of the page with its
\* short rows taken out.
C35_ShortRows ==
  ScrapedRows =>
    LET kept == SelectSeq(ParsedRows, PassesGate) IN
    /\ expect = [k \in 1..Len(kept) |-> RecordOf(TOKENS[1], kept[k])]
    /\ Len(expect) <= Len(resp.rows) - Len(SelectSeq(resp.rows, IsShort))

C35_Witness ==
  /\ ScrapedRows
  /\ Len(resp.rows) = 2
  /\ IsShort(resp.rows[1])
  /\ ~IsShort(resp.rows[2]) /\ PassesGate(resp.rows[2])
  /\ Len(expect) = 1
  /\ expect[1] = RecordOf(TOKENS[1], resp.rows[2])

RateLimitOf(src) == IF src = "A" THEN CG_RATE_LIMIT ELSE CMC_RATE_LIMIT
\* The requests issued in the 60 seconds that begin with request k.
InWindow(k) == {j \in k..Len(ev) : ev[j].x - ev[k].x <= 60}

\* C36: with the sleep of its source after every request, no 60 seconds of
\* a run hold more than 10 requests to source A or more than 30 requests
\* to source B.
C36_RateLimit ==
  env.prog = "rate" =>
    \A k \in 1..Len(ev) : Cardinality(InWindow(k)) <= RateLimitOf(env.src)

C36_Witness ==
  /\ env.prog = "rate"
  /\ env.src = "A" /\ env.lat = 0
  /\ Len(ev) = 12
  /\ Cardinality(InWindow(1)) = 9
  /\ ev[10].x = 63

InPhases == env.prog = "api" /\ pc \in {"phase1", "hist", "phase2", "cur", "phase3", "cmc"}
\* C37: once a run of the API collector is past initialization, files A
\* and B are there; before the first request a file that was absent at
\* startup holds its header row and nothing else, and a file that was there
\* at startup is as it was.
C37_FilesReady ==
  InPhases =>
    \A p \in {"A", "B"} :
      /\ fs[p].st = "file"
      /\ pc = "phase1" =>
           IF WasFile(p) THEN fs[p] = fs0[p] ELSE fs[p].rows = <<HeaderOf(p)>>

\* Initialization is over, no request has been made, and file B, absent at
\* startup, is there without a header.
C37_Witness ==
  /\ InPhases
  /\ pc = "phase1"
  /\ fs0["B"].st = "absent"
  /\ fs["B"] = File(<<>>)
  /\ fs["A"].st = "file"

\* The tokens that have historical rows in the file f.
BackfilledIn(f) ==
  {f.rows[k].item : k \in {j \in 1..Len(f.rows) : f.rows[j].src = SourceTag("hist")}}
C38_Step ==
  /\ \A p \in {"A", "B"} : fs[p].st = "file" => fs'[p].st = "file"
  /\ (run' >= 2 /\ (fs0'["A"].st = "file" \/ fs0'["B"].st = "file") /\ ModeDecided') =>
       /\ skipHist'
       /\ histRuns' \subseteq 1..(run' - 1)
       /\ BackfilledIn(fs'["A"]) = BackfilledIn(fs0'["A"])

\* C38: once an invocation has left an output file behind, the file stays,
\* every later invocation is a RecurringRun and enters no historical phase:
\* the tokens a first run did not backfill before it was interrupted have
\* no historical row in file A at any later time.
C38_NeverBackfilled == [][C38_Step]_vars

\* The first run was interrupted after the historical rows of the first
\* token; the next run has added snapshot rows and no historical row.
C38_Witness ==
  /\ run = 2 /\ pc = "done"
  /\ skipHist
  /\ histRuns = {1}
  /\ BackfilledIn(fs0["A"]) = {TOKENS[1]}
  /\ BackfilledIn(fs["A"]) = {TOKENS[1]}
  /\ \E k \in 1..Len(fs["A"].rows) : fs["A"].rows[k].src = SourceTag("cur") /\ fs["A"].rows[k].run = 2


\* C39: in a REST collection phase no response body is open when the next
\* request of the phase is issued: the body of every earlier request of the
\* phase has been closed, whatever branch that iteration took, so at most one
\* body is open at any time.
C39_BodiesClosed == pc \in {"hist", "cur", "cmc"} => bodies = 0
\* Two requests of the historical phase were answered and the third is about
\* to be issued.
C39_Witness == pc = "hist" /\ i = 2 /\ bodies = 2 /\ resp.kind = "status"

\* The rows a writer builds from the payload resp when it takes the entries
\* in the order of the payload and reads the clock as now.
RowsInPayloadOrder(kind, now) ==
  IF kind = "hist"
  THEN [k \in 1..Len(resp.prices) |-> HistRecord(resp, k)]
  ELSE [k \in 1..Len(resp.coins) |-> CoinRecord(SourceTag(kind), resp.coins[k], now)]
\* C40: the rows a writer of the API collector appends to file A or file B,
\* and their order, are determined by the payload and the clock readings:
\* two executions on the same payload with the same clock readings append
\* the same sequence of rows, the one built entry by entry in payload order.
C40_SameRows ==
  \A kind \in {"hist", "cur", "cmc"} :
    WrittenBy(kind) =>
      \E now \in ClockReadings :
        DataRows(FileOf(kind)) = RowsInPayloadOrder(kind, now)
\* The rows of file A alone are determined.
C40_SameRowsA ==
  \A kind \in {"hist", "cur"} :
    WrittenBy(kind) =>
      \E now \in ClockReadings :
        DataRows(FileOf(kind)) = RowsInPayloadOrder(kind, now)
\* A source-B payload of two different coins whose rows are in file B in the
\* reverse order; the other order is the result of the step as well.
C40_Witness ==
  /\ WrittenBy("cmc")
  /\ Len(resp.coins) = 2
  /\ resp.coins[1].price = JNum(7) /\ resp.coins[2].price = JNull
  /\ DataRows("B") = <<CoinRecord(SourceTag("cmc"), resp.coins[2], <<86399, 86399>>),
                       CoinRecord(SourceTag("cmc"), resp.coins[1], <<86399, 86399>>)>>


====
